---- MODULE Spec2Model ----
(***************************************************************************)
(* The comment widget of swiftfoxx.github.io (src/unnamed/part_001, lines  *)
(* 131-300): the read pipeline fetch -> res.json() -> render, raced        *)
(* against an 8 second abort timer, and the composer's write path.         *)
(*                                                                         *)
(* The host's event loop is modelled as in the browser: a task (a network  *)
(* event, the timer callback, a DOM event) runs only when no promise       *)
(* reaction (microtask) is pending; each promise reaction is one action.   *)
(***************************************************************************)
EXTENDS Integers, Sequences, FiniteSets, TLC

VARIABLES
    clock,       \* ms elapsed since the script ran
    timer,       \* timeoutId's timer: "armed", "fired" or "cleared"
    aborted,     \* controller.signal.aborted
    wire,        \* what the read request still expects from the network
    fetchP,      \* the promise returned by fetch(...)
    jsonP,       \* the promise returned by res.json()
    pc,          \* position of the read chain .then.then.catch
    console,     \* entries written to the host console, in order
    outcomes,    \* terminal outcomes of the read chain, in order, with their time
    unhandled,   \* exceptions and rejections that escaped every handler
    railPresent, \* whether the page holds an element of class trailing-rail
    dataset,     \* the data-* attributes of the script tag on the host page
    token,       \* const token = document.currentScript.dataset.token
    discussionNumber, \* const discussionNumber = ...dataset.discussion
    reloaded,    \* whether location.reload() has been called
    rail,        \* children of the mount element: the appended sections
    err,         \* the rejection travelling down the read chain to .catch
    trace,       \* pipeline events in order of occurrence
    writes,      \* one record per submit event: the write call and its handler
    renders,     \* how many times renderComments has been called
    nowMs,       \* Date.now() at a call of timeAgo
    thenMs,      \* new Date(isoString).getTime() at a call of timeAgo
    stamp,       \* what the call of timeAgo returned
    queryArg,    \* the discussion number a query is built for
    query,       \* the query built for it
    renderArg,   \* the discussion renderComments is called with on its own
    slides,      \* carousel.js: how many children .carousel has
    imgs,        \* indices of the children that hold an img
    markerCount, \* how many buttons .carousel-markers holds
    clientWidth, \* carousel.clientWidth
    scrollLeft,  \* carousel.scrollLeft
    target,      \* where a smooth scrollTo in progress is heading, if any
    active,      \* indices of the markers that carry the class active
    pending,     \* events dispatched to the carousel's listeners and not yet handled
    started,     \* whether carousel.js has run on the wrapper
    overlayOpen, \* whether the overlay carries the class open
    ariaHidden,  \* the overlay's aria-hidden attribute
    overlaySrc,  \* the src of the overlay's img
    lastClick,   \* the last click that ran a listener to its end
    expanded     \* the src of the slide that was current at that expand click

(* The configuration read when the script starts. *)
config == <<dataset, token, discussionNumber>>

(* The calls of functions that are examined on their own. *)
(* One carousel of carousel.js (a .carousel-wrapper and what it holds). *)
carousel == <<slides, imgs, markerCount, clientWidth, scrollLeft, target, active,
              pending, started, overlayOpen, ariaHidden, overlaySrc, lastClick,
              expanded>>

harness == <<nowMs, thenMs, stamp, queryArg, query, renderArg, carousel>>

(* A page without a carousel: querySelectorAll('.carousel-wrapper') is empty. *)
NoCarousel ==
    /\ slides = 0
    /\ imgs = {}
    /\ markerCount = 0
    /\ clientWidth = 0
    /\ scrollLeft = 0
    /\ target = {}
    /\ active = {}
    /\ pending = {}
    /\ started = FALSE
    /\ overlayOpen = FALSE
    /\ ariaHidden = "absent"
    /\ overlaySrc = ""
    /\ lastClick = "none"
    /\ expanded = ""

vars == <<clock, timer, aborted, wire, fetchP, jsonP, pc, err, console, outcomes,
          unhandled, railPresent, config, reloaded, rail, trace, writes, renders,
          harness>>

----------------------------------------------------------------------------
(* Bounds of the model *)

MaxComments == 2
MaxReplies == 2
MaxNullAuthors == 1
MaxWrites == 2
MaxRenders == 2
MaxClock == 8000
TickMs == 8000

(* setTimeout(() => controller.abort(), 8000) *)
TimeoutMs == 8000

----------------------------------------------------------------------------
(* JSON values *)

Null == [t |-> "null"]
Undefined == [t |-> "undefined"]
User == [t |-> "user"]
Malformed == [t |-> "malformed"]

Authors == {Null, User}

SeqsUpTo(S, n) == UNION {[1..k -> S] : k \in 0..n}

ReplyNodes(i, as) == [j \in 1..Len(as) |-> [id |-> 10 * i + j, author |-> as[j]]]

(* How many comments and replies of cs have a null author (a deleted account). *)
NullAuthors(cs) ==
    Cardinality({ij \in (1..Len(cs)) \X (0..MaxReplies) :
                    \/ ij[2] = 0 /\ cs[ij[1]].author = Null
                    \/ /\ ij[2] \in 1..Len(cs[ij[1]].replies)
                       /\ cs[ij[1]].replies[ij[2]].author = Null})

(* The comments the service can return in position i of comments.nodes. *)
CommentsAt(i) ==
    {[id |-> i, author |-> a, replies |-> ReplyNodes(i, r)] :
        a \in Authors, r \in SeqsUpTo(Authors, MaxReplies)}

RECURSIVE CommentLists(_)
CommentLists(k) ==
    IF k = 0 THEN {<<>>}
    ELSE CommentLists(k - 1)
         \cup {Append(cs, c) : cs \in {l \in CommentLists(k - 1) : Len(l) = k - 1},
                               c \in CommentsAt(k)}

CommentNodes == {cs \in CommentLists(MaxComments) : NullAuthors(cs) <= MaxNullAuthors}

(* The node ids the service can give a discussion. *)
DiscussionIds == {"D_a", "D_b"}

Discussions ==
    {[t |-> "discussion", id |-> d, comments |-> cs] :
        d \in DiscussionIds, cs \in CommentNodes}

Obj(field, v) == [t |-> "obj", field |-> field, v |-> v]

(* The decoded bodies a response can carry. *)
Envelopes ==
    {Obj("data", Undefined), Obj("data", Null),
     Obj("data", Obj("repository", Null)),
     Obj("data", Obj("repository", Obj("discussion", Null)))}
    \cup {Obj("data", Obj("repository", Obj("discussion", d))) : d \in Discussions}

Bodies == {Malformed} \cup Envelopes

Statuses == {"2xx", "non2xx"}

----------------------------------------------------------------------------
(* Promises *)

Error(name) == [t |-> "error", name |-> name]

Response(status) == [t |-> "response", status |-> status]

Pending == [st |-> "pending", v |-> Undefined]
NotCreated == [st |-> "none", v |-> Undefined]

(* A promise settles once: settling a settled promise changes nothing. *)
Settle(p, st, v) == IF p.st = "pending" THEN [st |-> st, v |-> v] ELSE p

Return(v) == [ok |-> TRUE, v |-> v]
Throw(e) == [ok |-> FALSE, v |-> Error(e)]

(* const discussion = data.data.repository.discussion *)
Extract(env) ==
    IF env.v \in {Undefined, Null} THEN Throw("TypeError")
    ELSE IF env.v.v = Null THEN Throw("TypeError")
    ELSE Return(env.v.v.v)

----------------------------------------------------------------------------
(* ThreadRenderer and Composer: the DOM they build *)

Placeholder == [kind |-> "placeholder", class |-> "comment"]

(* A composer bound to one discussion whatever the read call returned. *)
FormOfFirstDiscussion(discussionId) ==
    [kind |-> "form", discussionId |-> "D_a", value |-> ""]

Form(discussionId) == [kind |-> "form", discussionId |-> discussionId, value |-> ""]

(* The template literals read comment.author.avatarUrl and reply.author.avatarUrl:
   a null author throws a TypeError. *)
CommentBuilds(c) ==
    /\ c.author # Null
    /\ \A j \in 1..Len(c.replies) : c.replies[j].author # Null

(* The fields of a Comment or Reply that the element's template interpolates
   into its markup; the element gets no attribute but its class. *)
TemplateFields(kind) ==
    IF kind = "comment" THEN {"author.avatarUrl", "author.login", "createdAt", "body"}
    ELSE IF kind = "reply" THEN {"author.avatarUrl", "author.login", "body"}
    ELSE {}

(* One article per comment; its .replies container holds one div per reply.
   id and the entries of replies say which Comment and Reply an element was
   built from; they are not part of its markup. *)
CommentEl(c) ==
    [kind |-> "comment", class |-> "comment", id |-> c.id,
     replies |-> [j \in 1..Len(c.replies) |-> c.replies[j].id]]

(* A section that is left empty when there is no comment. *)
ContainerNoPlaceholder(d) ==
    [i \in 1..Len(d.comments) |-> CommentEl(d.comments[i])]

(* A section whose comment nodes hold the replies of the next comment. *)
ContainerRepliesShifted(d) ==
    IF Len(d.comments) = 0 THEN <<Placeholder>>
    ELSE [i \in 1..Len(d.comments) |->
            [CommentEl(d.comments[i]) EXCEPT
                !.replies = CommentEl(d.comments[(i % Len(d.comments)) + 1]).replies]]

(* The children of the section built for a discussion. *)
Container(d) ==
    IF Len(d.comments) = 0 THEN <<Placeholder>>
    ELSE [i \in 1..Len(d.comments) |-> CommentEl(d.comments[i])]

(* A composer mounted into the section that was appended last. *)
renderComposerIntoNewest(r, discussionId) ==
    IF Len(r) = 0 THEN Throw("TypeError")
    ELSE Return([r EXCEPT ![Len(r)] = <<Form(discussionId)>> \o @])

(* A composer mounted at both ends of the section. *)
renderComposerTwice(r, discussionId) ==
    IF Len(r) = 0 THEN Throw("TypeError")
    ELSE Return([r EXCEPT ![1] = <<Form(discussionId)>> \o @ \o <<Form(discussionId)>>])

(* document.querySelector("#comments").prepend(form): the first section of the
   document gets the form; with no section the call on null throws. *)
renderComposer(r, discussionId) ==
    IF Len(r) = 0 THEN Throw("TypeError")
    ELSE Return([r EXCEPT ![1] = <<Form(discussionId)>> \o @])

(* renderComments with the section appended, and the composer mounted, before the
   comments are built. *)
renderCommentsMountFirst(discussion, present, r) ==
    IF discussion \in {Null, Undefined}
    THEN [ok |-> TRUE, rail |-> r, ev |-> <<>>]
    ELSE IF ~present
    THEN [ok |-> FALSE, rail |-> r, ev |-> <<"render:begin">>]
    ELSE LET composed == renderComposer(Append(r, <<>>), discussion.id).v
         IN  IF \E i \in 1..Len(discussion.comments) :
                    ~CommentBuilds(discussion.comments[i])
             THEN [ok |-> FALSE, rail |-> composed,
                   ev |-> <<"render:begin", "composer:mounted">>]
             ELSE [ok |-> TRUE,
                   rail |-> [composed EXCEPT ![Len(composed)] = @ \o Container(discussion)],
                   ev |-> <<"render:begin", "composer:mounted", "render:mounted">>]

(* A renderer that leaves a page alone once it holds a comments section. *)
renderCommentsOnce(discussion, present, r) ==
    IF discussion \in {Null, Undefined} \/ Len(r) > 0
    THEN [ok |-> TRUE, rail |-> r, ev |-> <<>>]
    ELSE IF \E i \in 1..Len(discussion.comments) : ~CommentBuilds(discussion.comments[i])
    THEN [ok |-> FALSE, rail |-> r, ev |-> <<"render:begin">>]
    ELSE IF ~present
    THEN [ok |-> FALSE, rail |-> r, ev |-> <<"render:begin">>]
    ELSE LET mounted == Append(r, Container(discussion))
             composed == renderComposer(mounted, discussion.id)
         IN  IF composed.ok
             THEN [ok |-> TRUE, rail |-> composed.v,
                   ev |-> <<"render:begin", "render:mounted", "composer:mounted">>]
             ELSE [ok |-> FALSE, rail |-> mounted,
                   ev |-> <<"render:begin", "render:mounted">>]

(* renderComments(discussion) on a page whose mount element holds r: whether it
   returned normally, the mount element's children afterwards, and the pipeline
   events it produced. *)
renderComments(discussion, present, r) ==
    IF discussion \in {Null, Undefined}
    THEN [ok |-> TRUE, rail |-> r, ev |-> <<>>]
    ELSE IF \E i \in 1..Len(discussion.comments) : ~CommentBuilds(discussion.comments[i])
    THEN [ok |-> FALSE, rail |-> r, ev |-> <<"render:begin">>]
    ELSE IF ~present
    THEN [ok |-> FALSE, rail |-> r, ev |-> <<"render:begin">>]
    ELSE LET mounted == Append(r, Container(discussion))
             composed == renderComposer(mounted, discussion.id)
         IN  IF composed.ok
             THEN [ok |-> TRUE, rail |-> composed.v,
                   ev |-> <<"render:begin", "render:mounted", "composer:mounted">>]
             ELSE [ok |-> FALSE, rail |-> mounted,
                   ev |-> <<"render:begin", "render:mounted">>]

----------------------------------------------------------------------------
(* The event loop *)

(* The bearer tokens a host page can carry in data-token. *)
Tokens == {"tokA", "tokB"}

(* The script tags the widget is loaded with: two posts of the site, each with
   its own token and its own discussion. *)
HostPages ==
    {[token |-> "tokA", discussion |-> 1], [token |-> "tokB", discussion |-> 50]}

(* No query has been built. *)
NoQuery == <<>>

(* timeAgo has not been called. *)
NoStamp == [n |-> 0, unit |-> "none"]

Header(name, scheme, value) == [name |-> name, scheme |-> scheme, value |-> value]

(* The lexical tokens of a GraphQL document. *)
Name(s) == [k |-> "name", s |-> s, v |-> 0]
Punctuator(s) == [k |-> "punct", s |-> s, v |-> 0]
StringValue(s) == [k |-> "string", s |-> s, v |-> 0]
IntValue(v) == [k |-> "int", s |-> "", v |-> v]

(* { login avatarUrl } *)
AuthorFields == <<Punctuator("{"), Name("login"), Name("avatarUrl"), Punctuator("}")>>

(* (first: 50) *)
First50 == <<Punctuator("("), Name("first"), Punctuator(":"), IntValue(50), Punctuator(")")>>

(* The query with the number 1 written into it. *)
QueryBuilderHardCoded(n) ==
    <<Name("query"), Punctuator("{"),
      Name("repository"), Punctuator("("), Name("owner"), Punctuator(":"), StringValue("SwiftFoxx"),
          Name("name"), Punctuator(":"), StringValue("swiftblog-feedback"), Punctuator(")"), Punctuator("{"),
      Name("discussion"), Punctuator("("), Name("number"), Punctuator(":"), IntValue(1),
          Punctuator(")"), Punctuator("{"),
      Name("id"), Name("title"), Name("body"),
      Name("comments")>> \o First50 \o <<Punctuator("{"), Name("nodes"), Punctuator("{"),
      Name("id"), Name("body"), Name("createdAt"), Name("author")>> \o AuthorFields \o
    <<Name("replies")>> \o First50 \o <<Punctuator("{"), Name("nodes"), Punctuator("{"),
      Name("id"), Name("body"), Name("author")>> \o AuthorFields \o
    <<Punctuator("}"), Punctuator("}"), Punctuator("}"), Punctuator("}"), Punctuator("}"), Punctuator("}"), Punctuator("}")>>

(* const query = `query { repository(...) { discussion(number: ${discussionNumber})
   { ... } } }`: the template with the number interpolated, as its tokens. *)
QueryBuilder(n) ==
    <<Name("query"), Punctuator("{"),
      Name("repository"), Punctuator("("), Name("owner"), Punctuator(":"), StringValue("SwiftFoxx"),
          Name("name"), Punctuator(":"), StringValue("swiftblog-feedback"), Punctuator(")"), Punctuator("{"),
      Name("discussion"), Punctuator("("), Name("number"), Punctuator(":"), IntValue(n),
          Punctuator(")"), Punctuator("{"),
      Name("id"), Name("title"), Name("body"),
      Name("comments")>> \o First50 \o <<Punctuator("{"), Name("nodes"), Punctuator("{"),
      Name("id"), Name("body"), Name("createdAt"), Name("author")>> \o AuthorFields \o
    <<Name("replies")>> \o First50 \o <<Punctuator("{"), Name("nodes"), Punctuator("{"),
      Name("id"), Name("body"), Name("author")>> \o AuthorFields \o
    <<Punctuator("}"), Punctuator("}"), Punctuator("}"), Punctuator("}"), Punctuator("}"), Punctuator("}"), Punctuator("}")>>

(* The earlier build's line: const discussionNumber = 1 // ...dataset.discussion *)
DiscussionOfHardCoded(ds) == 1

(* document.currentScript.dataset.discussion *)
DiscussionOf(ds) == ds.discussion

(* fetch("https://api.github.com/graphql", {method, headers, body, signal}) *)
ReadRequest ==
    [method |-> "POST", url |-> "https://api.github.com/graphql",
     headers |-> {Header("Content-Type", "", "application/json"),
                  Header("Authorization", "Bearer", token)},
     json |-> [query |-> QueryBuilder(discussionNumber)]]

WriteMicrotask(w) == w.st \in {"fulfilled", "rejected", "logged"}

MicrotaskPending ==
    \/ pc \in {"then1", "then2", "catch"}
    \/ \E i \in 1..Len(writes) : WriteMicrotask(writes[i])

(* An exception or rejection no handler took: the host reports it as uncaught. *)
Escaped(from, name) == [from |-> from, name |-> name]

Warned == "warn: Comments request timed out"
Failed == "error: Failed to load comments"

clearTimeout(t) == IF t = "armed" THEN "cleared" ELSE t

Outcome(kind) == [kind |-> kind, at |-> clock]

(* The script has run to its end: configuration read, timer armed, read call
   issued. *)
ScriptStart ==
    /\ clock = 0
    /\ timer = "armed"
    /\ aborted = FALSE
    /\ wire = "headers"
    /\ fetchP = Pending
    /\ jsonP = NotCreated
    /\ pc = "fetch"
    /\ err = "none"
    /\ console = <<>>
    /\ outcomes = <<>>
    /\ unhandled = <<>>
    /\ railPresent \in BOOLEAN
    /\ dataset \in HostPages
    /\ token = dataset.token
    /\ discussionNumber = DiscussionOf(dataset)
    /\ reloaded = FALSE
    /\ rail = <<>>
    /\ trace = <<>>
    /\ writes = <<>>
    /\ renders = 0

Init ==
    /\ ScriptStart
    /\ nowMs = 0
    /\ thenMs = 0
    /\ stamp = NoStamp
    /\ queryArg = discussionNumber
    /\ query = NoQuery
    /\ renderArg = Null
    /\ NoCarousel

(* Wall-clock time passes. Only the timer reads the clock, so it is followed
   while the timer is armed. *)
Tick ==
    /\ timer = "armed"
    /\ clock < MaxClock
    /\ clock' = clock + TickMs
    /\ UNCHANGED <<timer, aborted, wire, fetchP, jsonP, pc, err, console, outcomes,
                   unhandled, railPresent, config, harness, renders, reloaded, rail, trace, writes>>

(* The response head arrives: fetch(...) fulfils with a Response of any status.
   After an abort the promise is already rejected and the arrival is dropped. *)
NetResponse(status) ==
    /\ ~MicrotaskPending
    /\ wire = "headers"
    /\ fetchP' = Settle(fetchP, "fulfilled", Response(status))
    /\ IF fetchP' # fetchP
       THEN /\ pc' = "then1"
            /\ wire' = "body"
            /\ trace' = Append(trace, "fetch:fulfilled")
       ELSE /\ wire' = "closed"
            /\ UNCHANGED <<pc, trace>>
    /\ UNCHANGED <<clock, timer, aborted, jsonP, err, console, outcomes, unhandled,
                   railPresent, config, harness, renders, reloaded, rail, writes>>

(* The request fails in transport (network, DNS, TLS): fetch(...) rejects with a
   TypeError and the rejection passes both .then to .catch. *)
NetError ==
    /\ ~MicrotaskPending
    /\ wire = "headers"
    /\ wire' = "closed"
    /\ fetchP' = Settle(fetchP, "rejected", Error("TypeError"))
    /\ IF fetchP' # fetchP
       THEN pc' = "catch" /\ err' = "TypeError" /\ trace' = Append(trace, "fetch:failed")
       ELSE UNCHANGED <<pc, err, trace>>
    /\ UNCHANGED <<clock, timer, aborted, jsonP, console, outcomes, unhandled,
                   railPresent, config, harness, renders, reloaded, rail, writes>>

(* A callback that clears the timer as soon as the head has arrived. *)
Then1ClearsTimer ==
    /\ pc = "then1"
    /\ timer' = clearTimeout(timer)
    /\ jsonP' = Pending
    /\ pc' = "json"
    /\ UNCHANGED <<clock, aborted, wire, fetchP, err, console, outcomes,
                   unhandled, railPresent, config, harness, renders, reloaded, rail, trace, writes>>

(* .then(res => res.json()): starts reading the body, whatever res.status is. *)
Then1 ==
    /\ pc = "then1"
    /\ jsonP' = Pending
    /\ pc' = "json"
    /\ UNCHANGED <<clock, timer, aborted, wire, fetchP, err, console, outcomes,
                   unhandled, railPresent, config, harness, renders, reloaded, rail, trace, writes>>

(* The body has arrived in full and is parsed: res.json() fulfils with the decoded
   value or rejects with a SyntaxError. *)
BodyArrives(body) ==
    /\ ~MicrotaskPending
    /\ wire = "body"
    /\ wire' = "closed"
    /\ jsonP' = IF body = Malformed THEN Settle(jsonP, "rejected", Error("SyntaxError"))
                ELSE Settle(jsonP, "fulfilled", body)
    /\ IF jsonP' = jsonP THEN UNCHANGED <<pc, err, trace>>
       ELSE IF jsonP'.st = "fulfilled"
       THEN pc' = "then2" /\ trace' = Append(trace, "json:fulfilled") /\ UNCHANGED err
       ELSE pc' = "catch" /\ err' = jsonP'.v.name /\ trace' = Append(trace, "json:failed")
    /\ UNCHANGED <<clock, timer, aborted, fetchP, console, outcomes, unhandled,
                   railPresent, config, harness, renders, reloaded, rail, writes>>

(* The connection breaks while the body is read: res.json() rejects. *)
BodyError ==
    /\ ~MicrotaskPending
    /\ wire = "body"
    /\ wire' = "closed"
    /\ jsonP' = Settle(jsonP, "rejected", Error("TypeError"))
    /\ IF jsonP' # jsonP
       THEN pc' = "catch" /\ err' = "TypeError" /\ trace' = Append(trace, "json:failed")
       ELSE UNCHANGED <<pc, err, trace>>
    /\ UNCHANGED <<clock, timer, aborted, fetchP, console, outcomes, unhandled,
                   railPresent, config, harness, renders, reloaded, rail, writes>>

(* The callback registered twice on the same promise: it runs a second time
   after the first run has rendered. *)
Then2Twice ==
    /\ pc = "then2"
    /\ timer' = clearTimeout(timer)
    /\ LET x == Extract(jsonP.v)
           r == renderComments(x.v, railPresent, rail)
       IN  IF ~x.ok
           THEN /\ pc' = "catch"
                /\ err' = x.v.name
                /\ UNCHANGED <<console, rail, trace, outcomes, renders>>
           ELSE /\ console' = Append(console, IF x.v = Null THEN "log: null"
                                               ELSE "log: discussion")
                /\ renders' = renders + 1
                /\ rail' = r.rail
                /\ trace' = trace \o r.ev
                /\ IF r.ok
                   THEN /\ pc' = IF renders = 0 THEN "then2" ELSE "done"
                        /\ outcomes' = IF renders = 0 THEN outcomes
                                       ELSE Append(outcomes, Outcome("Success"))
                        /\ UNCHANGED err
                   ELSE /\ pc' = "catch"
                        /\ err' = "TypeError"
                        /\ UNCHANGED outcomes
    /\ UNCHANGED <<clock, aborted, wire, fetchP, jsonP, unhandled, railPresent,
                   config, harness, reloaded, writes>>

(* .then(data => { clearTimeout(timeoutId); ...; renderComments(discussion) }) *)
Then2 ==
    /\ pc = "then2"
    /\ timer' = clearTimeout(timer)
    /\ LET x == Extract(jsonP.v)
           r == renderComments(x.v, railPresent, rail)
       IN  IF ~x.ok
           THEN /\ pc' = "catch"
                /\ err' = x.v.name
                /\ UNCHANGED <<console, rail, trace, outcomes, renders>>
           ELSE /\ console' = Append(console, IF x.v = Null THEN "log: null"
                                               ELSE "log: discussion")
                /\ renders' = renders + 1
                /\ rail' = r.rail
                /\ trace' = trace \o r.ev
                /\ IF r.ok
                   THEN /\ pc' = "done"
                        /\ outcomes' = Append(outcomes, Outcome("Success"))
                        /\ UNCHANGED err
                   ELSE /\ pc' = "catch"
                        /\ err' = "TypeError"
                        /\ UNCHANGED outcomes
    /\ UNCHANGED <<clock, aborted, wire, fetchP, jsonP, unhandled, railPresent,
                   config, harness, reloaded, writes>>

(* .catch that handles the AbortError only and throws anything else again. *)
CatchAbortOnly ==
    /\ pc = "catch"
    /\ pc' = "done"
    /\ IF err = "AbortError"
       THEN /\ console' = Append(console, Warned)
            /\ outcomes' = Append(outcomes, Outcome("Timeout"))
            /\ UNCHANGED unhandled
       ELSE /\ unhandled' = Append(unhandled, Escaped("read", err))
            /\ outcomes' = Append(outcomes, Outcome("Failure"))
            /\ UNCHANGED console
    /\ UNCHANGED <<clock, timer, aborted, wire, fetchP, jsonP, err,
                   railPresent, config, harness, renders, reloaded, rail, trace, writes>>

(* .catch(err => ...): a warning for an AbortError, an error for anything else. *)
Catch ==
    /\ pc = "catch"
    /\ pc' = "done"
    /\ IF err = "AbortError"
       THEN /\ console' = Append(console, Warned)
            /\ outcomes' = Append(outcomes, Outcome("Timeout"))
       ELSE /\ console' = Append(console, Failed)
            /\ outcomes' = Append(outcomes, Outcome("Failure"))
    /\ UNCHANGED <<clock, timer, aborted, wire, fetchP, jsonP, err, unhandled,
                   railPresent, config, harness, renders, reloaded, rail, trace, writes>>

(* A timer callback that leaves the request alone. *)
TimerFireNoAbort ==
    /\ ~MicrotaskPending
    /\ timer = "armed"
    /\ clock >= TimeoutMs
    /\ timer' = "fired"
    /\ trace' = Append(trace, "timer:fired")
    /\ UNCHANGED <<clock, aborted, wire, fetchP, jsonP, pc, err, console, outcomes,
                   unhandled, railPresent, config, harness, renders, reloaded, rail, writes>>

(* A timer callback that reports the timeout and leaves the request running. *)
TimerFireReportOnly ==
    /\ ~MicrotaskPending
    /\ timer = "armed"
    /\ clock >= TimeoutMs
    /\ timer' = "fired"
    /\ trace' = Append(trace, "timer:fired")
    /\ IF pc \in {"fetch", "json"}
       THEN /\ console' = Append(console, Warned)
            /\ outcomes' = Append(outcomes, Outcome("Timeout"))
       ELSE UNCHANGED <<console, outcomes>>
    /\ UNCHANGED <<clock, aborted, wire, fetchP, jsonP, pc, err, unhandled,
                   railPresent, config, harness, renders, reloaded, rail, writes>>

(* A timer that aborts without waiting for the deadline. *)
TimerFireEarly ==
    /\ ~MicrotaskPending
    /\ timer = "armed"
    /\ timer' = "fired"
    /\ aborted' = TRUE
    /\ fetchP' = Settle(fetchP, "rejected", Error("AbortError"))
    /\ jsonP' = Settle(jsonP, "rejected", Error("AbortError"))
    /\ IF fetchP' # fetchP \/ jsonP' # jsonP
       THEN pc' = "catch" /\ err' = "AbortError"
       ELSE UNCHANGED <<pc, err>>
    /\ trace' = Append(trace, "timer:fired")
    /\ UNCHANGED <<clock, wire, console, outcomes, unhandled, railPresent, config, harness, renders, reloaded, rail,
                   writes>>

(* The timer callback () => controller.abort(), 8000 ms after the script ran:
   the signal aborts, and a pending fetch or body read rejects with AbortError. *)
TimerFire ==
    /\ ~MicrotaskPending
    /\ timer = "armed"
    /\ clock >= TimeoutMs
    /\ timer' = "fired"
    /\ aborted' = TRUE
    /\ fetchP' = Settle(fetchP, "rejected", Error("AbortError"))
    /\ jsonP' = Settle(jsonP, "rejected", Error("AbortError"))
    /\ IF fetchP' # fetchP \/ jsonP' # jsonP
       THEN pc' = "catch" /\ err' = "AbortError"
       ELSE UNCHANGED <<pc, err>>
    /\ trace' = Append(trace, "timer:fired")
    /\ UNCHANGED <<clock, wire, console, outcomes, unhandled, railPresent, config, harness, renders, reloaded, rail,
                   writes>>

ReadNext ==
    \/ Tick
    \/ \E s \in Statuses : NetResponse(s)
    \/ NetError
    \/ Then1
    \/ (wire = "body" /\ \E b \in Bodies : BodyArrives(b))
    \/ BodyError
    \/ Then2
    \/ Catch
    \/ TimerFire

----------------------------------------------------------------------------
(* The composer and the write path *)

API_BASE == "https://comments.swiftfoxx.workers.dev"

(* What a visitor can have typed into the textarea. *)
Drafts == {"", "hi"}

IsForm(s, n) ==
    /\ s \in 1..Len(rail)
    /\ n \in 1..Len(rail[s])
    /\ rail[s][n].kind = "form"

FormAt == {sn \in (1..Len(rail)) \X (1..(MaxComments + MaxWrites + 2)) : IsForm(sn[1], sn[2])}

(* A write call that authenticates like the read call does. *)
WriteRequestWithToken(discussionId, body) ==
    [method |-> "POST", base |-> API_BASE, path |-> "/api/comment",
     headers |-> {Header("Content-Type", "", "application/json"),
                  Header("Authorization", "Bearer", token)},
     json |-> [discussionId |-> discussionId, body |-> body]]

(* fetch(`${API_BASE}/api/comment`, {method, headers, body: JSON.stringify(...)}) *)
WriteRequest(discussionId, body) ==
    [method |-> "POST", base |-> API_BASE, path |-> "/api/comment",
     headers |-> {Header("Content-Type", "", "application/json")},
     json |-> [discussionId |-> discussionId, body |-> body]]

(* The visitor edits the textarea of a mounted form (edits that no submit can
   follow within the bound are left out). *)
Type(s, n, v) ==
    /\ ~MicrotaskPending
    /\ ~reloaded
    /\ IsForm(s, n)
    /\ Len(writes) < MaxWrites
    /\ rail[s][n].value # v
    /\ rail' = [rail EXCEPT ![s][n].value = v]
    /\ UNCHANGED <<clock, timer, aborted, wire, fetchP, jsonP, pc, err, console,
                   outcomes, unhandled, railPresent, config, harness, renders, reloaded, trace, writes>>

(* A handler that validates the draft: an empty textarea sends nothing. *)
SubmitSkipsEmpty(s, n) ==
    /\ ~MicrotaskPending
    /\ ~reloaded
    /\ IsForm(s, n)
    /\ Len(writes) < MaxWrites
    /\ writes' = IF rail[s][n].value = ""
                 THEN writes
                 ELSE Append(writes,
                             [req |-> WriteRequest(rail[s][n].discussionId, rail[s][n].value),
                              prevented |-> TRUE, st |-> "pending", status |-> "none",
                         payload |-> "none"])
    /\ trace' = Append(trace, "submit")
    /\ UNCHANGED <<clock, timer, aborted, wire, fetchP, jsonP, pc, err, console,
                   outcomes, unhandled, railPresent, config, harness, renders, reloaded, rail>>

(* A handler that keeps one call in flight: a new submit aborts the calls still
   pending. *)
SubmitAbortsPrevious(s, n) ==
    /\ ~MicrotaskPending
    /\ ~reloaded
    /\ IsForm(s, n)
    /\ Len(writes) < MaxWrites
    /\ writes' = Append([i \in 1..Len(writes) |->
                            IF writes[i].st = "pending"
                            THEN [writes[i] EXCEPT !.st = "rejected"]
                            ELSE writes[i]],
                        [req |-> WriteRequest(rail[s][n].discussionId, rail[s][n].value),
                         prevented |-> TRUE, st |-> "pending", status |-> "none",
                         payload |-> "none"])
    /\ trace' = Append(trace, "submit")
    /\ UNCHANGED <<clock, timer, aborted, wire, fetchP, jsonP, pc, err, console,
                   outcomes, unhandled, railPresent, config, harness, renders, reloaded, rail>>

(* form.onsubmit up to its await: preventDefault, read the textarea, call fetch. *)
Submit(s, n) ==
    /\ ~MicrotaskPending
    /\ ~reloaded
    /\ IsForm(s, n)
    /\ Len(writes) < MaxWrites
    /\ writes' = Append(writes,
                        [req |-> WriteRequest(rail[s][n].discussionId, rail[s][n].value),
                         prevented |-> TRUE, st |-> "pending", status |-> "none",
                         payload |-> "none"])
    /\ trace' = Append(trace, "submit")
    /\ UNCHANGED <<clock, timer, aborted, wire, fetchP, jsonP, pc, err, console,
                   outcomes, unhandled, railPresent, config, harness, renders, reloaded, rail>>

(* What the proxy can put in the body of its answer to a write. *)
WritePayloads == {"created", "message"}

(* The proxy answers write i with any status and body: its fetch fulfils. *)
WriteResponse(i, status, payload) ==
    /\ ~MicrotaskPending
    /\ i \in 1..Len(writes)
    /\ writes[i].st = "pending"
    /\ writes' = [writes EXCEPT ![i].st = "fulfilled", ![i].status = status,
                                ![i].payload = payload]
    /\ UNCHANGED <<clock, timer, aborted, wire, fetchP, jsonP, pc, err, console,
                   outcomes, unhandled, railPresent, config, harness, renders, reloaded, rail, trace>>

(* Write i fails in transport: its fetch rejects with a TypeError. *)
WriteNetError(i) ==
    /\ ~MicrotaskPending
    /\ i \in 1..Len(writes)
    /\ writes[i].st = "pending"
    /\ writes' = [writes EXCEPT ![i].st = "rejected"]
    /\ UNCHANGED <<clock, timer, aborted, wire, fetchP, jsonP, pc, err, console,
                   outcomes, unhandled, railPresent, config, harness, renders, reloaded, rail, trace>>

(* JSON.stringify(data) of a Response: it has no enumerable own property, so
   neither its status nor its body reaches the text. *)
Stringify(status, payload) == "{}"

(* A callback that looks at the answer: anything but a 2xx "created" is
   thrown, and the await throws in turn. *)
WriteThenChecksOk(i) ==
    /\ i \in 1..Len(writes)
    /\ writes[i].st = "fulfilled"
    /\ IF writes[i].status = "2xx" /\ writes[i].payload = "created"
       THEN /\ console' = Append(console, "log: Send {}")
            /\ writes' = [writes EXCEPT ![i].st = "logged", ![i].status = "none",
                                        ![i].payload = "none"]
       ELSE /\ console' = console
            /\ writes' = [writes EXCEPT ![i].st = "rejected", ![i].status = "none",
                                        ![i].payload = "none"]
    /\ UNCHANGED <<clock, timer, aborted, wire, fetchP, jsonP, pc, err, outcomes,
                   unhandled, railPresent, config, harness, renders, reloaded, rail, trace>>

(* A callback that shows the posted comment at once: it appends a comment node
   to the thread. *)
WriteThenAppendsLocally(i) ==
    /\ i \in 1..Len(writes)
    /\ writes[i].st = "fulfilled"
    /\ console' = Append(console, "log: Send {}")
    /\ writes' = [writes EXCEPT ![i].st = "logged", ![i].status = "none",
                                ![i].payload = "none"]
    /\ rail' = [rail EXCEPT ![1] = Append(@, [kind |-> "comment", class |-> "comment",
                                              id |-> 0, replies |-> <<>>])]
    /\ UNCHANGED <<clock, timer, aborted, wire, fetchP, jsonP, pc, err, outcomes,
                   unhandled, railPresent, config, harness, renders, reloaded, trace>>

(* A callback whose logging throws: its promise rejects and the await throws
   in turn. *)
WriteThenThrows(i) ==
    /\ i \in 1..Len(writes)
    /\ writes[i].st = "fulfilled"
    /\ writes' = [writes EXCEPT ![i].st = "rejected", ![i].status = "none",
                                ![i].payload = "none"]
    /\ UNCHANGED <<clock, timer, aborted, wire, fetchP, jsonP, pc, err, console, outcomes,
                   unhandled, railPresent, config, harness, renders, reloaded, rail, trace>>

(* .then((data) => { console.log("Send", JSON.stringify(data)) }): the
   Response is logged and dropped; the callback returns undefined. *)
WriteThen(i) ==
    /\ i \in 1..Len(writes)
    /\ writes[i].st = "fulfilled"
    /\ console' = Append(console,
                        "log: Send " \o Stringify(writes[i].status, writes[i].payload))
    /\ writes' = [writes EXCEPT ![i].st = "logged", ![i].status = "none",
                                ![i].payload = "none"]
    /\ UNCHANGED <<clock, timer, aborted, wire, fetchP, jsonP, pc, err, outcomes,
                   unhandled, railPresent, config, harness, renders, reloaded, rail, trace>>

(* // location.reload(): the statement after the await is a comment, so
   running the rest of the handler leaves the page as it is. *)
AfterAwait(page) == page

(* A handler that resets the form once its call has succeeded. *)
WriteResumeResetsForm(i) ==
    /\ i \in 1..Len(writes)
    /\ writes[i].st \in {"logged", "rejected"}
    /\ IF writes[i].st = "logged"
       THEN /\ writes' = [writes EXCEPT ![i].st = "done"]
            /\ rail' = [s \in 1..Len(rail) |->
                          [n \in 1..Len(rail[s]) |->
                              IF rail[s][n].kind = "form"
                              THEN [rail[s][n] EXCEPT !.value = ""]
                              ELSE rail[s][n]]]
            /\ UNCHANGED unhandled
       ELSE /\ writes' = [writes EXCEPT ![i].st = "escaped"]
            /\ unhandled' = Append(unhandled, Escaped("write", "TypeError"))
            /\ UNCHANGED rail
    /\ UNCHANGED <<clock, timer, aborted, wire, fetchP, jsonP, pc, err, console,
                   outcomes, railPresent, config, harness, renders, reloaded, trace>>

(* The await resumes: after a fulfilment the handler runs to its end; after a
   rejection the await throws, nothing in the handler catches it, and the
   handler's promise rejects with no reaction attached. *)
WriteResume(i) ==
    /\ i \in 1..Len(writes)
    /\ writes[i].st \in {"logged", "rejected"}
    /\ IF writes[i].st = "logged"
       THEN /\ writes' = [writes EXCEPT ![i].st = "done"]
            /\ reloaded' = AfterAwait(reloaded)
            /\ UNCHANGED unhandled
       ELSE /\ writes' = [writes EXCEPT ![i].st = "escaped"]
            /\ unhandled' = Append(unhandled, Escaped("write", "TypeError"))
            /\ UNCHANGED reloaded
    /\ UNCHANGED <<clock, timer, aborted, wire, fetchP, jsonP, pc, err, console,
                   outcomes, railPresent, config, harness, renders, rail, trace>>

WriteNext ==
    \/ \E sn \in FormAt : \E v \in Drafts : Type(sn[1], sn[2], v)
    \/ \E sn \in FormAt : Submit(sn[1], sn[2])
    \/ \E i \in 1..Len(writes) : \E s \in Statuses, b \in WritePayloads :
                                      WriteResponse(i, s, b)
    \/ \E i \in 1..Len(writes) : WriteNetError(i)
    \/ \E i \in 1..Len(writes) : WriteThen(i)
    \/ \E i \in 1..Len(writes) : WriteResume(i)

Next == ReadNext \/ WriteNext

Spec == Init /\ [][Next]_vars

(* The read pipeline alone, with the scheduling the host guarantees: time passes,
   a due timer callback runs, and queued promise reactions run. Nothing is
   assumed of the network. The composer exists only once Then2 has ended the
   pipeline, so the write path cannot precede a terminal outcome. *)
LiveSpec ==
    /\ Init
    /\ [][ReadNext]_vars
    /\ WF_vars(Tick)
    /\ WF_vars(TimerFire)
    /\ WF_vars(Then1)
    /\ WF_vars(Then2)
    /\ WF_vars(Catch)

(* The page once the read of a discussion without comments has ended in
   success: the timer cleared, the discussion logged, the section and the
   composer mounted, nothing submitted yet. *)
ComposerInit ==
    \E id \in DiscussionIds :
        LET d == [t |-> "discussion", id |-> id, comments |-> <<>>]
            r == renderComments(d, TRUE, <<>>)
        IN  /\ clock = 0
            /\ timer = "cleared"
            /\ aborted = FALSE
            /\ wire = "closed"
            /\ fetchP = [st |-> "fulfilled", v |-> [t |-> "response", status |-> "2xx"]]
            /\ jsonP = [st |-> "fulfilled",
                        v |-> Obj("data", Obj("repository", Obj("discussion", d)))]
            /\ pc = "done"
            /\ err = "none"
            /\ console = <<"log: discussion">>
            /\ outcomes = <<[kind |-> "Success", at |-> 0]>>
            /\ unhandled = <<>>
            /\ railPresent = TRUE
            /\ dataset \in HostPages
            /\ token = dataset.token
            /\ discussionNumber = DiscussionOf(dataset)
            /\ reloaded = FALSE
            /\ rail = r.rail
            /\ trace = <<"fetch:fulfilled", "json:fulfilled">> \o r.ev
            /\ writes = <<>>
            /\ renders = 1
            /\ nowMs = 0
            /\ thenMs = 0
            /\ stamp = NoStamp
            /\ queryArg = discussionNumber
            /\ query = NoQuery
            /\ renderArg = Null
            /\ NoCarousel

(* The composer alone, with the scheduling the host guarantees for its handler:
   a queued reaction of a write call runs, and a handler whose await has
   settled resumes. Nothing is assumed of the network or of the user. *)
ComposerSpec ==
    /\ ComposerInit
    /\ [][WriteNext]_vars
    /\ WF_vars(\E i \in 1..Len(writes) : WriteThen(i))
    /\ WF_vars(\E i \in 1..Len(writes) : WriteResume(i))

----------------------------------------------------------------------------
(* timeAgo *)

(* Ages, in whole seconds, of the comments a page can show: around every
   boundary of timeAgo, and ahead of the local clock. *)
AgesS == {0, 1, 30, 59, 60, 61, 119, 120, 3540, 3599, 3600, 3601, 7199, 7200,
          82800, 86399, 86400, 86401, 172799, 172800,
          -1, -59, -60, -61, -3600, -86400}

(* Milliseconds beyond the whole second. *)
OffsetsMs == {0, 1, 999}

(* Instants a comment can have been created at, in ms. *)
CreatedMs == {0, 250}

(* timeAgo that takes a comment from the future as created just now. *)
timeAgoClamped(then, now) ==
    LET d == (now - then) \div 1000
        diff == IF d < 0 THEN 0 ELSE d
        minutes == diff \div 60
        hours == minutes \div 60
        days == hours \div 24
    IN  IF diff < 60 THEN [n |-> diff, unit |-> "s"]
        ELSE IF minutes < 60 THEN [n |-> minutes, unit |-> "m"]
        ELSE IF hours < 24 THEN [n |-> hours, unit |-> "h"]
        ELSE [n |-> days, unit |-> "d"]

(* timeAgo with each bucket's upper bound inclusive. *)
timeAgoUpperInclusive(then, now) ==
    LET diff == (now - then) \div 1000
        minutes == diff \div 60
        hours == minutes \div 60
        days == hours \div 24
    IN  IF diff <= 60 THEN [n |-> diff, unit |-> "s"]
        ELSE IF minutes <= 60 THEN [n |-> minutes, unit |-> "m"]
        ELSE IF hours <= 24 THEN [n |-> hours, unit |-> "h"]
        ELSE [n |-> days, unit |-> "d"]

(* timeAgo(isoString), with then = new Date(isoString).getTime() and
   now = Date.now(); the result `${n}${unit} ago` is kept as its two parts. *)
timeAgo(then, now) ==
    LET diff == (now - then) \div 1000
        minutes == diff \div 60
        hours == minutes \div 60
        days == hours \div 24
    IN  IF diff < 60 THEN [n |-> diff, unit |-> "s"]
        ELSE IF minutes < 60 THEN [n |-> minutes, unit |-> "m"]
        ELSE IF hours < 24 THEN [n |-> hours, unit |-> "h"]
        ELSE [n |-> days, unit |-> "d"]

(* A comment created at some instant is about to be stamped at a later or, with
   skewed clocks, earlier one. *)
TimeAgoInit ==
    /\ ScriptStart
    /\ \E t \in CreatedMs, a \in AgesS, o \in OffsetsMs :
          /\ thenMs = t
          /\ nowMs = t + 1000 * a + o
    /\ stamp = NoStamp
    /\ queryArg = discussionNumber
    /\ query = NoQuery
    /\ renderArg = Null
    /\ NoCarousel

(* The template calls timeAgo(comment.createdAt). *)
TimeAgoCall ==
    /\ stamp = NoStamp
    /\ stamp' = timeAgo(thenMs, nowMs)
    /\ UNCHANGED <<clock, timer, aborted, wire, fetchP, jsonP, pc, err, console,
                   outcomes, unhandled, railPresent, config, reloaded, rail, trace,
                   writes, renders, nowMs, thenMs, queryArg, query,
                   renderArg, carousel>>

TimeAgoSpec == TimeAgoInit /\ [][TimeAgoCall]_vars

----------------------------------------------------------------------------
(* The query template *)

(* The discussion numbers a query is built for. *)
QueryNumbers == 1..60

QueryInit ==
    /\ ScriptStart
    /\ nowMs = 0
    /\ thenMs = 0
    /\ stamp = NoStamp
    /\ queryArg \in QueryNumbers
    /\ query = NoQuery
    /\ renderArg = Null
    /\ NoCarousel

(* The template literal is evaluated with discussionNumber = queryArg. *)
BuildQuery ==
    /\ query = NoQuery
    /\ query' = QueryBuilder(queryArg)
    /\ UNCHANGED <<clock, timer, aborted, wire, fetchP, jsonP, pc, err, console,
                   outcomes, unhandled, railPresent, config, reloaded, rail, trace,
                   writes, renders, nowMs, thenMs, stamp, queryArg,
                   renderArg, carousel>>

QuerySpec == QueryInit /\ [][BuildQuery]_vars

----------------------------------------------------------------------------
(* renderComments called by hand *)

RenderInit ==
    /\ ScriptStart
    /\ nowMs = 0
    /\ thenMs = 0
    /\ stamp = NoStamp
    /\ queryArg = discussionNumber
    /\ query = NoQuery
    /\ renderArg \in Discussions
    /\ NoCarousel

(* renderComments(renderArg), called on the page as the last call left it. *)
RenderCall ==
    /\ renders < MaxRenders
    /\ LET r == renderComments(renderArg, railPresent, rail)
       IN  /\ rail' = r.rail
           /\ trace' = trace \o r.ev
    /\ renders' = renders + 1
    /\ UNCHANGED <<clock, timer, aborted, wire, fetchP, jsonP, pc, err, console,
                   outcomes, unhandled, railPresent, config, reloaded, writes,
                   harness>>

RenderSpec == RenderInit /\ [][RenderCall]_vars

----------------------------------------------------------------------------
(* carousel.js: one .carousel-wrapper *)

MaxSlides == 3

(* Everything on the page that carousel.js does not touch. *)
widget == <<clock, timer, aborted, wire, fetchP, jsonP, pc, err, console, outcomes,
            unhandled, railPresent, config, reloaded, rail, trace, writes, renders,
            nowMs, thenMs, stamp, queryArg, query, renderArg>>

(* The widths a carousel is laid out with, in px; 0 while it is not displayed. *)
Widths == {0, 100, 200}

(* The scroll positions of a carousel of n slides as wide as itself: every
   quarter of a slide from the first slide to the last. *)
Positions(width, n) == {(q * width) \div 4 : q \in 0..(4 * (n - 1))}

(* The largest scrollLeft such a carousel can have. *)
MaxScrollLeft(width, n) == (n - 1) * width

Min(a, b) == IF a <= b THEN a ELSE b

Max(a, b) == IF a >= b THEN a ELSE b

(* The images of the post, in the order of the slides. *)
SlideSrcs == <<"ss.1.png", "ss.2.png", "ss.3.png", "ss.4.png", "ss.5.png">>

(* img.src of the k-th child of .carousel. *)
SrcOf(k) == SlideSrcs[k + 1]

(* Math.round(left / width) for a width other than 0: the nearest integer, a
   half rounded up. *)
Round(left, width) == (2 * left + width) \div (2 * width)

(* i === Math.round(left / width). With width 0 the quotient is NaN or
   Infinity, which no index equals. *)
IsIndex(i, left, width) == width # 0 /\ i = Round(left, width)

(* currentImage(): the img of the child at the index, by its src; undefined
   when there is no child at the index or the child holds no img. *)
currentImage(left, width, withImg) ==
    IF \E k \in withImg : IsIndex(k, left, width)
    THEN SrcOf(CHOOSE k \in withImg : IsIndex(k, left, width))
    ELSE "undefined"

(* updateMarkers that only ever adds the class. *)
updateMarkersAddOnly(old, m, left, width) ==
    old \cup {i \in 0..(m - 1) : IsIndex(i, left, width)}

(* updateMarkers(): classList.toggle('active', i === index) on every marker
   sets the class by the test alone, whatever the marker carried before. *)
updateMarkers(old, m, left, width) ==
    {i \in 0..(m - 1) : IsIndex(i, left, width)}

(* The wrapper as the page's markup has it when carousel.js is about to run. *)
CarouselInit ==
    /\ ScriptStart
    /\ railPresent
    /\ token = "tokA"
    /\ nowMs = 0
    /\ thenMs = 0
    /\ stamp = NoStamp
    /\ queryArg = discussionNumber
    /\ query = NoQuery
    /\ renderArg = Null
    /\ slides \in 1..MaxSlides
    /\ imgs \in {0..(slides - 1)} \cup {(0..(slides - 1)) \ {k} : k \in 0..(slides - 1)}
    /\ markerCount \in {slides - 1, slides}
    /\ clientWidth \in Widths
    /\ scrollLeft = 0
    /\ target = {}
    /\ active \in {{}, 0..(markerCount - 1)}
    /\ pending = {}
    /\ started = FALSE
    /\ overlayOpen = FALSE
    /\ ariaHidden \in {"true", "absent"}
    /\ overlaySrc = ""
    /\ lastClick = "none"
    /\ expanded = ""

(* The callback of forEach runs on the wrapper: listeners are attached and
   updateMarkers() is called once. *)
CarouselStart ==
    /\ ~started
    /\ started' = TRUE
    /\ active' = updateMarkers(active, markerCount, scrollLeft, clientWidth)
    /\ UNCHANGED <<widget, slides, imgs, markerCount, clientWidth, scrollLeft, target,
                   pending, overlayOpen, ariaHidden, overlaySrc, lastClick, expanded>>

(* The visitor scrolls the carousel to p: a scroll event is dispatched. *)
Drag(p) ==
    /\ started
    /\ p \in Positions(clientWidth, slides)
    /\ p # scrollLeft
    /\ scrollLeft' = p
    /\ target' = {}
    /\ pending' = pending \cup {"scroll"}
    /\ UNCHANGED <<widget, slides, imgs, markerCount, clientWidth, active, started,
                   overlayOpen, ariaHidden, overlaySrc, lastClick, expanded>>

(* marker.addEventListener('click', ...): carousel.scrollTo({left: i *
   clientWidth, behavior: 'smooth'}) starts a scroll towards the position,
   clamped to the scrollable range; the handler itself moves nothing. *)
MarkerClick(i) ==
    /\ started
    /\ i \in 0..(markerCount - 1)
    /\ LET dest == Min(i * clientWidth, MaxScrollLeft(clientWidth, slides))
       IN  /\ target # (IF dest = scrollLeft THEN {} ELSE {dest})
           /\ target' = (IF dest = scrollLeft THEN {} ELSE {dest})
    /\ UNCHANGED <<widget, slides, imgs, markerCount, clientWidth, scrollLeft, active,
                   pending, started, overlayOpen, ariaHidden, overlaySrc, lastClick,
                   expanded>>

(* One frame of a smooth scroll: a quarter of a slide towards the target, or
   onto it; a scroll event is dispatched. *)
Glide ==
    /\ started
    /\ target # {}
    /\ LET dest == CHOOSE d \in target : TRUE
           step == clientWidth \div 4
           next == IF dest > scrollLeft THEN Min(scrollLeft + step, dest)
                   ELSE Max(scrollLeft - step, dest)
       IN  /\ scrollLeft' = next
           /\ target' = (IF next = dest THEN {} ELSE target)
    /\ pending' = pending \cup {"scroll"}
    /\ UNCHANGED <<widget, slides, imgs, markerCount, clientWidth, active, started,
                   overlayOpen, ariaHidden, overlaySrc, lastClick, expanded>>

(* The window is resized and the carousel laid out at width w: the scroll
   position is kept if it is still in range, or the slide that was current is
   snapped to; a resize event is dispatched, and a scroll event when the
   position changed. *)
Resize(w) ==
    /\ started
    /\ w \in Widths
    /\ w # clientWidth
    /\ clientWidth' = w
    /\ \E p \in {Min(scrollLeft, MaxScrollLeft(w, slides))}
                \cup {k * w : k \in {j \in 0..(slides - 1) :
                                        IsIndex(j, scrollLeft, clientWidth)}} :
          /\ scrollLeft' = p
          /\ pending' = pending \cup {"resize"}
                            \cup (IF p # scrollLeft THEN {"scroll"} ELSE {})
    /\ target' = {}
    /\ UNCHANGED <<widget, slides, imgs, markerCount, active, started,
                   overlayOpen, ariaHidden, overlaySrc, lastClick, expanded>>

(* carousel.addEventListener('scroll', updateMarkers) *)
OnScroll ==
    /\ "scroll" \in pending
    /\ pending' = pending \ {"scroll"}
    /\ active' = updateMarkers(active, markerCount, scrollLeft, clientWidth)
    /\ UNCHANGED <<widget, slides, imgs, markerCount, clientWidth, scrollLeft, target,
                   started, overlayOpen, ariaHidden, overlaySrc, lastClick, expanded>>

(* window.addEventListener('resize', updateMarkers) *)
OnResize ==
    /\ "resize" \in pending
    /\ pending' = pending \ {"resize"}
    /\ active' = updateMarkers(active, markerCount, scrollLeft, clientWidth)
    /\ UNCHANGED <<widget, slides, imgs, markerCount, clientWidth, scrollLeft, target,
                   started, overlayOpen, ariaHidden, overlaySrc, lastClick, expanded>>

(* An expand listener that opens the overlay whether or not there is an image. *)
ExpandClickUnguarded ==
    /\ started
    /\ LET img == currentImage(scrollLeft, clientWidth, imgs)
       IN  /\ overlaySrc' = (IF img = "undefined" THEN "" ELSE img)
           /\ overlayOpen' = TRUE
           /\ ariaHidden' = "false"
           /\ lastClick' = "expand"
           /\ expanded' = (IF img = "undefined" THEN expanded ELSE img)
    /\ UNCHANGED <<widget, slides, imgs, markerCount, clientWidth, scrollLeft, target,
                   active, pending, started>>

(* expandBtn.addEventListener('click', ...): with no current image the
   listener returns at once; otherwise the overlay's img gets the image's src
   and the overlay is opened. *)
ExpandClick ==
    /\ started
    /\ LET img == currentImage(scrollLeft, clientWidth, imgs)
       IN  IF img = "undefined"
           THEN UNCHANGED <<overlaySrc, overlayOpen, ariaHidden, lastClick, expanded>>
           ELSE /\ overlaySrc' = img
                /\ overlayOpen' = TRUE
                /\ ariaHidden' = "false"
                /\ lastClick' = "expand"
                /\ expanded' = img
    /\ UNCHANGED <<widget, slides, imgs, markerCount, clientWidth, scrollLeft, target,
                   active, pending, started>>

(* overlay.addEventListener('click', ...): the overlay is closed and its img
   emptied. *)
OverlayClick ==
    /\ started
    /\ overlayOpen' = FALSE
    /\ ariaHidden' = "true"
    /\ overlaySrc' = ""
    /\ lastClick' = "overlay"
    /\ UNCHANGED <<widget, slides, imgs, markerCount, clientWidth, scrollLeft, target,
                   active, pending, started, expanded>>

CarouselNext ==
    \/ CarouselStart
    \/ \E p \in Positions(clientWidth, slides) : Drag(p)
    \/ \E i \in 0..(markerCount - 1) : MarkerClick(i)
    \/ Glide
    \/ \E w \in Widths : Resize(w)
    \/ OnScroll
    \/ OnResize
    \/ ExpandClick
    \/ OverlayClick

CarouselSpec == CarouselInit /\ [][CarouselNext]_vars

----------------------------------------------------------------------------
(* Vocabulary of the properties *)

Logged(m) == \E i \in 1..Len(console) : console[i] = m

Happened(e) == \E i \in 1..Len(trace) : trace[i] = e

(* Every occurrence of event b comes after an occurrence of event a. *)
Precedes(a, b) ==
    \A i \in 1..Len(trace) : trace[i] = b => \E j \in 1..(i - 1) : trace[j] = a

Ended(kind) == \E i \in 1..Len(outcomes) : outcomes[i].kind = kind

(* The request is complete once its body is read, or once it has failed. *)
Completion == {"json:fulfilled", "json:failed", "fetch:failed"}

(* The timer callback ran while the request was still in flight. *)
FiredInFlight ==
    \E i \in 1..Len(trace) :
        /\ trace[i] = "timer:fired"
        /\ \A j \in 1..(i - 1) : trace[j] \notin Completion

HasForm == \E s \in 1..Len(rail) : \E n \in 1..Len(rail[s]) : rail[s][n].kind = "form"

(* The decoded envelopes with no data.repository.discussion. *)
NoDiscussion ==
    {Obj("data", Undefined), Obj("data", Null),
     Obj("data", Obj("repository", Null)),
     Obj("data", Obj("repository", Obj("discussion", Null)))}

----------------------------------------------------------------------------
(* The read pipeline against its deadline *)

C1_AbortedOnFire ==
    FiredInFlight =>
        /\ aborted
        /\ Error("AbortError") \in {fetchP.v, jsonP.v}
        /\ err = "AbortError"
        /\ pc \in {"catch", "done"}
        /\ pc = "done" => (Len(outcomes) = 1 /\ outcomes[1].kind = "Timeout")

C1_Distinguishable ==
    /\ Ended("Timeout") => (Logged(Warned) /\ ~Logged(Failed) /\ rail = <<>>)
    /\ Ended("Failure") => (Logged(Failed) /\ ~Logged(Warned))
    /\ Ended("Success") => (~Logged(Failed) /\ ~Logged(Warned))

(* C1: whenever the timer callback runs while the read request is still in flight
   (head or body outstanding), the signal is aborted, the pending promise is
   rejected with AbortError, and the chain then ends in the Timeout outcome: the
   warning is logged, which neither Failure (the error entry) nor Success (no
   warning, no error) logs. *)
C1_TimerFiresToTimeout ==
    /\ [](C1_AbortedOnFire /\ C1_Distinguishable)
    /\ (FiredInFlight ~> Ended("Timeout"))

C1_Witness ==
    /\ FiredInFlight
    /\ pc = "done"
    /\ jsonP.v = Error("AbortError")
    /\ Logged(Warned)

(* C2: the chain produces at most one outcome, exactly one once it is done, and
   that one is Success, Failure or Timeout; a Timeout is never produced before
   8000 ms have passed; a request the network never answered ends in Timeout. *)
C2_ExactlyOneOutcome ==
    /\ Len(outcomes) <= 1
    /\ (pc = "done") <=> (Len(outcomes) = 1)
    /\ \A i \in 1..Len(outcomes) :
          /\ outcomes[i].kind \in {"Success", "Failure", "Timeout"}
          /\ outcomes[i].kind = "Timeout" => outcomes[i].at >= TimeoutMs
    /\ (pc = "done" /\ wire = "headers") => Ended("Timeout")

C2_Witness ==
    /\ pc = "done"
    /\ wire = "headers"
    /\ Ended("Timeout")
    /\ outcomes[1].at >= TimeoutMs

(* C3: with time passing, the due timer callback running and queued reactions
   running, every execution of the read pipeline reaches a terminal outcome,
   whatever the network does or fails to do. *)
C3_ReadAlwaysResolves == <>(pc = "done" /\ Len(outcomes) = 1)

C3_Witness ==
    /\ pc = "done"
    /\ wire = "body"
    /\ Ended("Timeout")

(* C4: once the chain has ended in Success or in Failure, the 8 second timer has
   been cleared. *)
C4_TimerClearedOnResolution ==
    (Ended("Success") \/ Ended("Failure")) => timer = "cleared"

(* C5: after a Timeout nothing is mounted, and no later step (a late response,
   a late body, a late transport error) mounts anything, logs anything or adds
   an outcome. *)
C5_LateSettlementIgnored ==
    /\ [](Ended("Timeout") => (rail = <<>> /\ ~HasForm /\ Len(outcomes) = 1))
    /\ [][Ended("Timeout") =>
            (rail' = rail /\ outcomes' = outcomes /\ console' = console /\ pc' = pc)]_vars

C5_Witness ==
    /\ Ended("Timeout")
    /\ aborted
    /\ wire = "closed"
    /\ rail = <<>>

(* C6: the body is decoded only after the fetch fulfilled, rendering begins only
   after the body decoded to an envelope that holds a discussion, the section is
   appended only after rendering began, the composer is mounted only into the
   appended section, which then holds every node built for the discussion, and a
   submit event occurs only after the composer is mounted. *)
C6_RenderSequential ==
    /\ Precedes("fetch:fulfilled", "json:fulfilled")
    /\ Precedes("json:fulfilled", "render:begin")
    /\ Precedes("render:begin", "render:mounted")
    /\ Precedes("render:mounted", "composer:mounted")
    /\ Precedes("composer:mounted", "submit")
    /\ Happened("render:begin") =>
          /\ fetchP.st = "fulfilled"
          /\ jsonP.st = "fulfilled"
          /\ jsonP.v \notin NoDiscussion
    /\ HasForm =>
          /\ Happened("render:mounted")
          /\ Len(rail) = 1
          /\ rail[1][1].kind = "form"
          /\ Tail(rail[1]) = Container(jsonP.v.v.v.v)
    /\ writes # <<>> => HasForm

C6_Witness ==
    /\ Happened("submit")
    /\ Len(rail) = 1
    /\ Len(rail[1]) = 3
    /\ rail[1][2].kind = "comment"

----------------------------------------------------------------------------
(* Error handling *)

(* A failure of the read path: a timeout, a failure caught by .catch, a response
   with a status outside 200-299, or a decoded envelope with no discussion. *)
ReadFailure ==
    \/ Ended("Timeout")
    \/ Ended("Failure")
    \/ (fetchP.st = "fulfilled" /\ fetchP.v.status = "non2xx")
    \/ (jsonP.st = "fulfilled" /\ jsonP.v \in NoDiscussion)

(* C7: after any read-path failure the mount element holds no section and no
   composer form. *)
C7_NoMountOnReadFailure == ReadFailure => (rail = <<>> /\ ~HasForm)

(* C8: nothing raised on the read path escapes the chain, and every error kind
   leaves a console entry once the chain is done: the warning for an abort, the
   error entry for a transport failure, an undecodable body or an exception
   while decoding or rendering, and for a missing discussion either the error
   entry or the logged null. A status outside 200-299 raises nothing by itself;
   what is logged for it is what its body leads to. *)
C8_ReadErrorsCaughtAndLogged ==
    /\ \A i \in 1..Len(unhandled) : unhandled[i].from # "read"
    /\ pc = "done" =>
          /\ err = "AbortError" => Logged(Warned)
          /\ err \in {"TypeError", "SyntaxError"} => Logged(Failed)
          /\ (fetchP.st = "fulfilled" /\ fetchP.v.status = "non2xx") => console # <<>>
          /\ (jsonP.st = "fulfilled" /\ jsonP.v \in NoDiscussion) =>
                (Logged(Failed) \/ Logged("log: null"))

C8_Witness ==
    /\ pc = "done"
    /\ err = "SyntaxError"
    /\ fetchP.v = Response("non2xx")
    /\ Logged(Failed)
    /\ unhandled = <<>>

(* C9: a decoded envelope with no data.repository.discussion, at whatever level
   the path breaks, ends as "no discussion": no failure outcome, no error entry,
   nothing rendered. *)
C9_MissingPathIsNotFound ==
    (pc = "done" /\ jsonP.st = "fulfilled" /\ jsonP.v \in NoDiscussion) =>
        /\ Ended("Success")
        /\ ~Logged(Failed)
        /\ rail = <<>>

(* C10: no failure of a write call escapes the submit handler. *)
C10_WriteErrorsCaught ==
    \A i \in 1..Len(unhandled) : unhandled[i].from # "write"

(* Handlers of submit events that have run to their end, by return or by throw. *)
HandlerEnded(i) == writes[i].st \in {"done", "escaped"}

(* C11: once the handler of a submit event has ended, whether the write call
   succeeded or failed, the page has been reloaded. *)
C11_ReloadAfterEverySubmit ==
    \A i \in 1..Len(writes) : HandlerEnded(i) => reloaded

(* Number of occurrences of event e so far. *)
Occurrences(e) == Cardinality({i \in 1..Len(trace) : trace[i] = e})

(* C12: the write calls made so far are as many as the submit events so far,
   whatever the drafts held; a step makes at most one call, and only a submit
   event makes one (no answer, failure or resumption sends again). *)
C12_OneCallPerSubmit ==
    /\ [](Len(writes) = Occurrences("submit"))
    /\ [][/\ Len(writes') \in {Len(writes), Len(writes) + 1}
          /\ Len(writes') = Len(writes) + 1 <=>
                Occurrences("submit")' = Occurrences("submit") + 1]_vars

(* Two submits, one of an empty draft, one after a failed call: two calls. *)
C12_Witness ==
    /\ Len(writes) = 2
    /\ Occurrences("submit") = 2
    /\ writes[1].st = "escaped"
    /\ writes[2].req.json.body = ""

InFlight == {i \in 1..Len(writes) : writes[i].st = "pending"}

(* C13: submissions are neither deduplicated nor serialized. A submit adds its
   own call in flight and leaves the calls already made as they are; every call
   in flight can be answered or fail whatever the others are doing; a step
   changes at most one call, and never the request of any. *)
C13_WritesIndependent ==
    /\ [](~MicrotaskPending =>
            \A i \in InFlight :
                /\ ENABLED WriteResponse(i, "2xx", "created")
                /\ ENABLED WriteNetError(i))
    /\ [][/\ Len(writes') >= Len(writes)
          /\ Len(writes') > Len(writes) =>
                /\ SubSeq(writes', 1, Len(writes)) = writes
                /\ InFlight' = InFlight \cup {Len(writes')}
          /\ \A i, j \in 1..Len(writes) :
                (writes'[i] # writes[i] /\ writes'[j] # writes[j]) => i = j
          /\ \A i \in 1..Len(writes) : writes'[i].req = writes[i].req]_vars

(* The same draft submitted twice before any answer: two calls, and the second
   has run to its end while the first is still in flight. *)
C13_Witness ==
    /\ Len(writes) = 2
    /\ writes[1].req = writes[2].req
    /\ writes[1].st = "pending"
    /\ writes[2].st = "done"

(* C14: every write request is a POST to the fixed proxy base followed by
   /api/comment; its JSON body has the two fields discussionId and body and no
   other; it carries no Authorization header; and the bearer token appears
   nowhere in it, so that pages differing only in their token send the same
   requests. *)
C14_WriteRequestShape ==
    \A i \in 1..Len(writes) :
        LET req == writes[i].req IN
        /\ req.method = "POST"
        /\ req.base = "https://comments.swiftfoxx.workers.dev"
        /\ req.path = "/api/comment"
        /\ DOMAIN req.json = {"discussionId", "body"}
        /\ req.json.discussionId \in DiscussionIds
        /\ req.json.body \in Drafts
        /\ \A h \in req.headers :
              /\ h.name # "Authorization"
              /\ h.value \notin Tokens
        /\ req.headers = {[name |-> "Content-Type", scheme |-> "",
                           value |-> "application/json"]}

(* A write request sent from a page whose read request carried the token. *)
C14_Witness ==
    /\ Len(writes) >= 1
    /\ \E h \in ReadRequest.headers : h.name = "Authorization" /\ h.value = token
    /\ token = "tokB"
    /\ writes[1].req.json.body = "hi"

Answered(i) == writes[i].st = "fulfilled"

(* C15: the answer to a write call is not looked at. Whatever its status and
   body, the step that handles it logs the same line, drops the answer, moves
   the handler on to the same position and changes nothing else on the page;
   an answered call never makes its handler throw. *)
C15_AnswerIgnored ==
    [][\A i \in 1..Len(writes) :
          /\ (Answered(i) /\ writes'[i] # writes[i]) =>
                /\ writes'[i] = [req |-> writes[i].req, prevented |-> TRUE,
                                 st |-> "logged", status |-> "none",
                                 payload |-> "none"]
                /\ console' = Append(console, "log: Send {}")
                /\ rail' = rail
                /\ reloaded' = reloaded
                /\ unhandled' = unhandled
          /\ (writes[i].st = "logged" /\ writes'[i] # writes[i]) =>
                /\ writes'[i] = [writes[i] EXCEPT !.st = "done"]
                /\ console' = console
                /\ rail' = rail
                /\ reloaded' = reloaded
                /\ unhandled' = unhandled]_vars

(* One call answered 2xx "created" and another answered non-2xx "message",
   the first already handled to its end: one log line, nothing escaped. *)
C15_Witness ==
    /\ Len(writes) = 2
    /\ writes[1].st = "done"
    /\ Answered(2)
    /\ writes[2].status = "non2xx"
    /\ writes[2].payload = "message"
    /\ Logged("log: Send {}")
    /\ unhandled = <<>>
    /\ ~reloaded

IsThreadNode(node) == node.kind # "form"

(* The rendered thread: the nodes of every section other than composer forms. *)
Thread == [s \in 1..Len(rail) |-> SelectSeq(rail[s], IsThreadNode)]

(* C16: no step of a submission (the submit event, the answer or failure of its
   call, the callback, the resumption) changes the discussion held in memory or
   the number, order or content of the nodes of the rendered thread; after any
   number of submissions the thread is still the one built from the discussion
   that was read. *)
C16_SubmissionLeavesThread ==
    /\ [][writes' # writes => (jsonP' = jsonP /\ Thread' = Thread)]_vars
    /\ [](writes # <<>> => Thread = <<Container(jsonP.v.v.v.v)>>)

(* A thread of two comments, one with a reply, after one submission has
   succeeded and another has failed. *)
C16_Witness ==
    /\ Len(writes) = 2
    /\ writes[1].st = "done"
    /\ writes[1].req.json.body = "hi"
    /\ writes[2].st = "escaped"
    /\ Len(Thread) = 1
    /\ Len(Thread[1]) = 2
    /\ Len(Thread[1][1].replies) = 1
    /\ Len(jsonP.v.v.v.v.comments) = 2

(* The discussion the read call of this page load returned. *)
DiscussionRead == jsonP.v.v.v.v

(* C17: the discussionId of every write request is the id of the discussion
   that the read call of the same page load returned. *)
C17_WriteTargetsDiscussionRead ==
    \A i \in 1..Len(writes) :
        /\ jsonP.st = "fulfilled"
        /\ writes[i].req.json.discussionId = DiscussionRead.id

(* Two writes from a page whose read call returned the second discussion. *)
C17_Witness ==
    /\ Len(writes) = 2
    /\ DiscussionRead.id = "D_b"
    /\ writes[2].req.json.discussionId = "D_b"

(* How many nodes of the given kind the thread holds at top level. *)
NodeCount(kind) ==
    Cardinality({sn \in (1..Len(Thread)) \X (1..(MaxComments + 1)) :
                    /\ sn[2] <= Len(Thread[sn[1]])
                    /\ Thread[sn[1]][sn[2]].kind = kind})

Rendered == Happened("render:mounted")

(* C18: a discussion with no comments is rendered as exactly one placeholder
   node and no comment node (a node built from a Comment). *)
C18_EmptyThreadPlaceholder ==
    (Rendered /\ Len(DiscussionRead.comments) = 0) =>
        /\ NodeCount("placeholder") = 1
        /\ NodeCount("comment") = 0
        /\ Len(Thread) = 1
        /\ Len(Thread[1]) = 1

C18_Witness ==
    /\ Rendered
    /\ DiscussionRead.comments = <<>>
    /\ NodeCount("placeholder") = 1

(* C19: the rendered section holds one comment node per Comment, in the order
   of the response; the replies container of the i-th node holds one reply node
   per Reply of the i-th Comment, in the order of the response, and is empty
   when that Comment has no reply; no reply node sits under the node of a
   different comment. *)
C19_ThreadMirrorsDiscussion ==
    (Rendered /\ Len(DiscussionRead.comments) > 0) =>
        LET cs == DiscussionRead.comments
            nodes == Thread[1]
        IN  /\ Len(nodes) = Len(cs)
            /\ \A i \in 1..Len(cs) :
                  /\ nodes[i].kind = "comment"
                  /\ nodes[i].id = cs[i].id
                  /\ Len(nodes[i].replies) = Len(cs[i].replies)
                  /\ \A j \in 1..Len(cs[i].replies) :
                        nodes[i].replies[j] = cs[i].replies[j].id
                  /\ \A k \in 1..Len(cs) : \A j \in 1..Len(cs[k].replies) :
                        (\E m \in 1..Len(nodes[i].replies) :
                            nodes[i].replies[m] = cs[k].replies[j].id) => k = i

(* Comments [A, B], A with two replies and B with none. *)
C19_Witness ==
    /\ Rendered
    /\ Len(DiscussionRead.comments) = 2
    /\ Len(DiscussionRead.comments[1].replies) = 2
    /\ DiscussionRead.comments[2].replies = <<>>
    /\ Thread[1][1].replies = <<11, 12>>
    /\ Thread[1][2].replies = <<>>

(* Reply nodes on the page, over all comment nodes. *)
ReplyNodeCount ==
    Cardinality({ij \in (1..(MaxComments + 1)) \X (1..MaxReplies) :
                    /\ Len(Thread) = 1
                    /\ ij[1] <= Len(Thread[1])
                    /\ Thread[1][ij[1]].kind = "comment"
                    /\ ij[2] <= Len(Thread[1][ij[1]].replies)})

(* Replies of the discussion, over all its comments. *)
ReplyTotal(d) ==
    Cardinality({ij \in (1..Len(d.comments)) \X (1..MaxReplies) :
                    ij[2] <= Len(d.comments[ij[1]].replies)})

Drafted == {sn \in FormAt : rail[sn[1]][sn[2]].value # ""}

(* C20: when the read has ended in success with a discussion of n comments and
   r replies in total, the page holds exactly n top-level comment nodes, exactly
   r reply nodes and exactly one composer form; the step that mounts the form
   leaves its draft empty. *)
C20_EndToEnd ==
    /\ []((Ended("Success") /\ jsonP.v \notin NoDiscussion) =>
            /\ NodeCount("comment") = Len(DiscussionRead.comments)
            /\ ReplyNodeCount = ReplyTotal(DiscussionRead)
            /\ Cardinality(FormAt) = 1)
    /\ [][(~Happened("composer:mounted") /\ Happened("composer:mounted")') =>
            (Cardinality(FormAt)' = 1 /\ Drafted' = {})]_vars

(* Two comments, one with one reply and one with none, read with success. *)
C20_Witness ==
    /\ Ended("Success")
    /\ jsonP.v \notin NoDiscussion
    /\ Len(DiscussionRead.comments) = 2
    /\ ReplyTotal(DiscussionRead) = 1
    /\ NodeCount("comment") = 2
    /\ ReplyNodeCount = 1
    /\ Cardinality(FormAt) = 1
    /\ Drafted = {}

----------------------------------------------------------------------------
(* timeAgo, configuration and query *)

(* The age, in whole seconds, of the comment being stamped. *)
AgeS == (nowMs - thenMs) \div 1000

Stamped == stamp # NoStamp

(* C21: for every non-negative age d in whole seconds timeAgo returns d with
   unit s below 60, floor(d/60) with unit m from 60 and below 3600,
   floor(d/3600) with unit h from 3600 and below 86400, and floor(d/86400) with
   unit d from 86400 on; each bucket starts at its lower bound. *)
C21_TimeAgoBuckets ==
    (Stamped /\ AgeS >= 0) =>
        /\ AgeS < 60 => stamp = [n |-> AgeS, unit |-> "s"]
        /\ (60 <= AgeS /\ AgeS < 3600) => stamp = [n |-> AgeS \div 60, unit |-> "m"]
        /\ (3600 <= AgeS /\ AgeS < 86400) =>
              stamp = [n |-> AgeS \div 3600, unit |-> "h"]
        /\ 86400 <= AgeS => stamp = [n |-> AgeS \div 86400, unit |-> "d"]
        /\ AgeS = 0 => stamp = [n |-> 0, unit |-> "s"]
        /\ AgeS = 59 => stamp = [n |-> 59, unit |-> "s"]
        /\ AgeS = 60 => stamp = [n |-> 1, unit |-> "m"]
        /\ AgeS = 3599 => stamp = [n |-> 59, unit |-> "m"]
        /\ AgeS = 3600 => stamp = [n |-> 1, unit |-> "h"]
        /\ AgeS = 86399 => stamp = [n |-> 23, unit |-> "h"]
        /\ AgeS = 86400 => stamp = [n |-> 1, unit |-> "d"]

(* A comment one day and 999 ms old, stamped "1d ago". *)
C21_Witness ==
    /\ Stamped
    /\ nowMs - thenMs = 86400999
    /\ stamp = [n |-> 1, unit |-> "d"]

(* Where a document names the discussion: the value of discussion(number: _). *)
NumberPositions(q) ==
    {i \in 5..Len(q) :
        /\ q[i - 4] = Name("discussion")
        /\ q[i - 3] = Punctuator("(")
        /\ q[i - 2] = Name("number")
        /\ q[i - 1] = Punctuator(":")}

(* C22: the bearer token of the read request and the discussion number in its
   query are the values of the script tag's data-token and data-discussion
   attributes, for every host page, and the values read at load never change. *)
C22_ConfigFromDataset ==
    /\ [](/\ token = dataset.token
          /\ discussionNumber = dataset.discussion
          /\ \E h \in ReadRequest.headers :
                h.name = "Authorization" /\ h.value = dataset.token
          /\ \A i \in NumberPositions(ReadRequest.json.query) :
                ReadRequest.json.query[i] = IntValue(dataset.discussion)
          /\ NumberPositions(ReadRequest.json.query) # {})
    /\ [][config' = config]_vars

(* The page of discussion 50, after the read has ended and a write was made. *)
C22_Witness ==
    /\ dataset = [token |-> "tokB", discussion |-> 50]
    /\ discussionNumber = 50
    /\ pc = "done"
    /\ Len(writes) = 1

Opens == {Punctuator("{"), Punctuator("(")}

Closer(open) == IF open = Punctuator("{") THEN Punctuator("}") ELSE Punctuator(")")

(* Brackets of q from position i on close the innermost open bracket first and
   leave none open, given the stack of brackets open before i. *)
RECURSIVE WellNested(_, _, _)
WellNested(q, i, stack) ==
    IF i > Len(q) THEN stack = <<>>
    ELSE IF q[i] \in Opens THEN WellNested(q, i + 1, <<q[i]>> \o stack)
    ELSE IF q[i] \in {Punctuator("}"), Punctuator(")")}
    THEN /\ stack # <<>>
         /\ q[i] = Closer(Head(stack))
         /\ WellNested(q, i + 1, Tail(stack))
    ELSE WellNested(q, i + 1, stack)

(* q is an anonymous query operation of the GraphQL grammar, as far as this
   template can leave it: one selection set well nested to the end, no empty
   selection set or argument list, every argument a name, a colon and a value,
   and values nowhere else. *)
ValidGraphQL(q) ==
    /\ Len(q) >= 4
    /\ q[1] = Name("query")
    /\ q[2] = Punctuator("{")
    /\ q[Len(q)] = Punctuator("}")
    /\ WellNested(q, 1, <<>>)
    /\ \A i \in 1..Len(q) :
          /\ q[i] \in Opens => (i < Len(q) /\ q[i + 1].k = "name")
          /\ q[i] = Punctuator("(") => (i > 1 /\ q[i - 1].k = "name")
          /\ q[i] = Punctuator(")") => (i < Len(q) /\ q[i + 1] = Punctuator("{"))
          /\ q[i] = Punctuator(":") =>
                /\ i > 2 /\ i < Len(q)
                /\ q[i - 1].k = "name"
                /\ q[i + 1].k \in {"int", "string"}
          /\ q[i].k \in {"int", "string"} => (i > 1 /\ q[i - 1] = Punctuator(":"))
          /\ q[i].k = "int" => q[i].v >= 0

Built == query # NoQuery

(* C23: for every discussion number n the query built for n holds the numeral n
   in the discussion-number position, has that position exactly once, and is
   syntactically valid GraphQL. *)
C23_QueryHoldsNumberOnce ==
    Built =>
        /\ Cardinality(NumberPositions(query)) = 1
        /\ \A i \in NumberPositions(query) : query[i] = IntValue(queryArg)
        /\ ValidGraphQL(query)

(* The query built for discussion 50, the number the template also uses as the
   page size of comments and replies. *)
C23_Witness ==
    /\ Built
    /\ queryArg = 50
    /\ query[17] = IntValue(50)
    /\ Cardinality({i \in 1..Len(query) : query[i] = IntValue(50)}) = 3

(* The identifier that can be read back from the markup of an element of the
   given kind built from the Comment or Reply id: none unless the template
   writes the id field. *)
IdsWritten(kind, id) == IF "id" \in TemplateFields(kind) THEN <<id>> ELSE <<>>

(* The comment identifiers re-serialized from the rendered section, in order. *)
RECURSIVE CommentIdsIn(_)
CommentIdsIn(nodes) ==
    IF nodes = <<>> THEN <<>>
    ELSE (IF Head(nodes).kind = "comment"
          THEN IdsWritten("comment", Head(nodes).id) ELSE <<>>)
         \o CommentIdsIn(Tail(nodes))

(* The reply identifiers re-serialized from one comment element, in order. *)
RECURSIVE ReplyIdsIn(_)
ReplyIdsIn(replies) ==
    IF replies = <<>> THEN <<>>
    ELSE IdsWritten("reply", Head(replies)) \o ReplyIdsIn(Tail(replies))

(* C24: the identifiers re-serialized from what the widget rendered for a
   decoded Discussion are the Discussion's: every comment id, and under each
   comment every reply id in the order of the response. *)
C24_IdsRoundTrip ==
    (Rendered /\ Len(DiscussionRead.comments) > 0) =>
        LET cs == DiscussionRead.comments IN
        /\ CommentIdsIn(Thread[1]) = [i \in 1..Len(cs) |-> cs[i].id]
        /\ \A i \in 1..Len(cs) :
              ReplyIdsIn(Thread[1][i].replies) =
                  [j \in 1..Len(cs[i].replies) |-> cs[i].replies[j].id]

----------------------------------------------------------------------------
(* Render passes *)

(* Sections with id "comments" under the mount point. *)
Sections == Len(rail)

(* C25: in every execution, however the arrival of the response and the firing
   of the timer interleave, renderComments is called at most once and at most
   one section is appended to the mount point; a step appends at most one. *)
C25_SingleRenderPass ==
    /\ [](/\ renders <= 1
          /\ Sections <= 1
          /\ Occurrences("render:begin") <= 1
          /\ Occurrences("render:mounted") <= 1
          /\ Sections = 1 => renders = 1)
    /\ [][Len(rail') \in {Len(rail), Len(rail) + 1}]_vars

(* The response raced the timer at the deadline and won: the renderer was called
   once and one section is mounted. *)
C25_Witness ==
    /\ renders = 1
    /\ Sections = 1
    /\ clock >= TimeoutMs
    /\ pc = "done"

(* renderComments(d) runs to its end on this page: every author is there to be
   read and the mount point exists. *)
Renders(d) ==
    /\ railPresent
    /\ \A i \in 1..Len(d.comments) : CommentBuilds(d.comments[i])

(* C26: a second call of renderComments with the same Discussion does not leave
   the page as the first call left it: it appends a second section, a duplicate
   of the first. *)
C26_RenderNotIdempotent ==
    [][(renders = 1 /\ renders' = 2 /\ Renders(renderArg)) =>
          /\ rail' # rail
          /\ Len(rail) = 1
          /\ Len(rail') = 2
          /\ Thread'[1] = Thread[1]
          /\ Thread'[2] = Thread[1]
          /\ Thread'[2] = Container(renderArg)]_vars

(* Two calls with a discussion of two comments: two sections of two nodes. *)
C26_Witness ==
    /\ renders = 2
    /\ Len(renderArg.comments) = 2
    /\ Len(rail) = 2
    /\ Thread[1] = Thread[2]
    /\ Len(Thread[2]) = 2

----------------------------------------------------------------------------
(* The composer's handler *)

(* C27: nothing but the network takes a write call out of flight: the step that
   ends its wait fulfils or rejects that call alone and is neither a tick, nor
   the timer, nor an abort, nor a submit; so a call that is never answered
   stays pending and its handler never ends. Meanwhile a further submit stays
   possible. *)
C27_WriteNeverTimesOut ==
    /\ [][\A i \in InFlight :
            writes'[i].st # "pending" =>
                /\ writes'[i].st \in {"fulfilled", "rejected"}
                /\ \A j \in 1..Len(writes) : j # i => writes'[j] = writes[j]
                /\ Len(writes') = Len(writes)
                /\ <<clock, timer, aborted, trace>>' = <<clock, timer, aborted, trace>>]_vars
    /\ [][(clock' # clock \/ timer' # timer \/ aborted' # aborted) =>
            writes' = writes]_vars
    /\ []((InFlight # {} /\ ~MicrotaskPending /\ Len(writes) < MaxWrites) =>
            \A sn \in FormAt : ENABLED Submit(sn[1], sn[2]))

(* A call still in flight after a later submission has run to its end. *)
C27_Witness ==
    /\ Len(writes) = 2
    /\ writes[1].st = "pending"
    /\ ~HandlerEnded(1)
    /\ HandlerEnded(2)
    /\ timer = "cleared"

(* Forms whose textarea is empty. *)
Blank == FormAt \ Drafted

(* C28: an empty draft is submitted like any other. Whether a form can be
   submitted does not depend on its draft; a submit event raised while every
   form is blank puts in flight one more call, whose body is the empty string
   and whose request differs from the request for a non-empty draft in that
   field alone. *)
C28_EmptyDraftSubmitted ==
    /\ [](\A sn \in Blank :
            ENABLED Submit(sn[1], sn[2]) <=>
                (~MicrotaskPending /\ Len(writes) < MaxWrites))
    /\ [][(Blank # {} /\ Drafted = {} /\ trace' = Append(trace, "submit")) =>
            LET w == writes'[Len(writes')] IN
            /\ Len(writes') = Len(writes) + 1
            /\ w.req.json.body = ""
            /\ w.st = "pending"
            /\ \E sn \in Blank :
                  LET id == rail[sn[1]][sn[2]].discussionId IN
                  /\ w.req = WriteRequest(id, "")
                  /\ [w.req EXCEPT !.json.body = "hi"] = WriteRequest(id, "hi")]_vars

(* An empty draft and then a non-empty one, both sent and both handlers run to
   their end. *)
C28_Witness ==
    /\ Len(writes) = 2
    /\ writes[1].req.json.body = ""
    /\ writes[2].req.json.body = "hi"
    /\ writes[1].st = "done"
    /\ writes[2].st = "done"

(* The i-th write call has been made and stands at st. *)
WriteAt(i, st) == i \in 1..Len(writes) /\ writes[i].st = st

(* The line the callback of a write call logs. *)
Sent == "log: Send {}"

(* C29: every submit event takes the handler through Idle, Submitting, Done.
   The default navigation is suppressed for every call made; the call carries
   the draft the form held at the submit step, whatever is typed afterwards;
   and once the call's promise has fulfilled the handler reaches Done, which it
   does only by way of the callback that logs the answer. *)
C29_IdleSubmittingDone ==
    /\ [](\A i \in 1..Len(writes) : writes[i].prevented)
    /\ [][trace' = Append(trace, "submit") =>
            /\ Len(writes') = Len(writes) + 1
            /\ writes'[Len(writes')].st = "pending"
            /\ \E sn \in FormAt :
                  writes'[Len(writes')].req.json.body = rail[sn[1]][sn[2]].value]_vars
    /\ [][\A i \in 1..Len(writes) :
            /\ rail' # rail => writes'[i] = writes[i]
            /\ (writes'[i].st = "logged" /\ writes[i].st # "logged") =>
                  (Answered(i) /\ console' = Append(console, Sent))
            /\ (writes'[i].st = "done" /\ writes[i].st # "done") =>
                  writes[i].st = "logged"]_vars
    /\ \A i \in 1..MaxWrites :
          [](WriteAt(i, "fulfilled") => <>WriteAt(i, "done"))

(* A draft sent, replaced in the textarea while the call was in flight, and the
   handler run to Done with the draft it was submitted with. *)
C29_Witness ==
    /\ Len(writes) = 1
    /\ writes[1].st = "done"
    /\ writes[1].prevented
    /\ writes[1].req.json.body = "hi"
    /\ Blank # {}
    /\ Logged(Sent)

----------------------------------------------------------------------------
(* The deadline and the body *)

(* The head has arrived and the body is still being read. *)
BodyOutstanding == fetchP.st = "fulfilled" /\ jsonP.st = "pending"

(* The timer callback ran while the body was being read. *)
FiredOnBody ==
    /\ timer = "fired"
    /\ fetchP.st = "fulfilled"
    /\ jsonP = [st |-> "rejected", v |-> Error("AbortError")]

(* C30: the deadline covers the reading of the body. The timer is cleared only
   by the callback that runs after the body has been decoded, so it is still
   armed for as long as the body is outstanding; if it fires then, the body
   read is rejected with AbortError, and the chain ends in the Timeout outcome
   with nothing rendered. *)
C30_DeadlineCoversBody ==
    /\ [](BodyOutstanding => timer = "armed")
    /\ [][(timer # "cleared" /\ timer' = "cleared") =>
            (pc = "then2" /\ jsonP.st = "fulfilled" /\ wire = "closed")]_vars
    /\ [][(BodyOutstanding /\ timer' = "fired") =>
            /\ jsonP' = [st |-> "rejected", v |-> Error("AbortError")]
            /\ pc' = "catch"
            /\ err' = "AbortError"
            /\ rail' = <<>>]_vars
    /\ [](FiredOnBody => (rail = <<>> /\ ~HasForm /\ ~Ended("Success")))
    /\ (FiredOnBody ~> (Ended("Timeout") /\ Logged(Warned) /\ rail = <<>>))

(* A 2xx head in time, the timer firing on the body, the chain ended in
   Timeout, and the body arriving afterwards. *)
C30_Witness ==
    /\ FiredOnBody
    /\ fetchP.v = Response("2xx")
    /\ Ended("Timeout")
    /\ outcomes[1].at >= TimeoutMs
    /\ wire = "closed"
    /\ rail = <<>>

----------------------------------------------------------------------------
(* Mounting *)

(* renderComments began to build a section and threw before mounting it. *)
RenderThrew == Happened("render:begin") /\ ~Rendered

(* C31: mounting is all-or-nothing. The step that mounts puts the whole section
   and the composer on the page at once, and only for a discussion whose every
   node could be built on a page with a mount element. When a comment or reply
   has a null author, or the page has no mount element, rendering throws: the
   exception reaches .catch and nowhere else, is logged as a load failure, and
   neither a section nor a composer is mounted, then or later. *)
C31_MountAllOrNothing ==
    /\ [](Rendered => (Renders(DiscussionRead) /\ HasForm))
    /\ []((Happened("render:begin") /\ ~Renders(DiscussionRead)) => RenderThrew)
    /\ [](RenderThrew =>
            /\ rail = <<>>
            /\ ~HasForm
            /\ pc \in {"catch", "done"}
            /\ err = "TypeError"
            /\ unhandled = <<>>
            /\ ~Renders(DiscussionRead)
            /\ pc = "done" => (Logged(Failed) /\ Ended("Failure")))
    /\ [][rail' # rail =>
            \/ (rail # <<>> /\ Len(rail') = Len(rail) /\ Thread' = Thread)
            \/ (/\ rail = <<>>
                /\ rail' = <<<<Form(DiscussionRead.id)>> \o Container(DiscussionRead)>>)]_vars

(* A discussion whose one comment has an author and a reply without one, read
   on a page with a mount element: the failure is logged, nothing is mounted. *)
C31_Witness ==
    /\ RenderThrew
    /\ pc = "done"
    /\ railPresent
    /\ Len(DiscussionRead.comments) = 1
    /\ DiscussionRead.comments[1].author # Null
    /\ Len(DiscussionRead.comments[1].replies) = 1
    /\ DiscussionRead.comments[1].replies[1].author = Null
    /\ Logged(Failed)
    /\ rail = <<>>

----------------------------------------------------------------------------
(* The placeholder *)

(* The "No comments yet" article is on the page. *)
PlaceholderShown == NodeCount("placeholder") >= 1

(* The read ended in Success with a discussion that has no comment. *)
EmptySuccess ==
    /\ Ended("Success")
    /\ jsonP.v \notin NoDiscussion
    /\ DiscussionRead.comments = <<>>

(* C32: the placeholder is on the page if and only if the read ended in Success
   with a discussion whose comment list is empty; it is never there after a
   timeout, a transport failure, a service error (a status outside 200-299 or
   an undecodable body) or a missing discussion, and never together with a
   comment node. *)
C32_PlaceholderIffEmptySuccess ==
    /\ PlaceholderShown <=> EmptySuccess
    /\ ReadFailure => ~PlaceholderShown
    /\ ~(PlaceholderShown /\ NodeCount("comment") >= 1)

----------------------------------------------------------------------------
(* Composers after repeated renders *)

IsFormNode(node) == node.kind = "form"

(* The composer forms of section s, in document order. *)
FormsOf(s) == SelectSeq(rail[s], IsFormNode)

(* C33: every composer is mounted into the first section with id "comments" in
   document order. After k calls of the renderer that ran to their end there
   are k sections; the first holds all k forms, the newest in front, and every
   later section, the one just created included, holds none. *)
C33_ComposersInFirstSection ==
    Renders(renderArg) =>
        /\ Len(rail) = renders
        /\ \A s \in 1..Len(rail) :
              /\ Len(FormsOf(s)) = (IF s = 1 THEN renders ELSE 0)
              /\ rail[s] = FormsOf(s) \o Thread[s]
              /\ \A n \in 1..Len(FormsOf(s)) : FormsOf(s)[n] = Form(renderArg.id)

(* Two renders: two forms in the first section, none in the second. *)
C33_Witness ==
    /\ renders = 2
    /\ Len(rail) = 2
    /\ Len(FormsOf(1)) = 2
    /\ Len(FormsOf(2)) = 0
    /\ rail[2] # <<>>

----------------------------------------------------------------------------
(* Comments from the future *)

(* How far ahead of the local clock the comment was created, in ms. *)
AheadMs == thenMs - nowMs

(* C34: a comment created ahead of the local clock is stamped in the seconds
   bucket with a negative count, whatever the distance: exactly k whole seconds
   ahead gives -k with unit s, a fraction of a second more gives the next
   integer below, and no such comment is stamped in minutes, hours or days or
   as 0s. *)
C34_FutureStampedInSeconds ==
    (Stamped /\ AheadMs > 0) =>
        /\ stamp.unit = "s"
        /\ stamp.n < 0
        /\ AheadMs % 1000 = 0 => stamp.n = 0 - (AheadMs \div 1000)
        /\ AheadMs % 1000 # 0 => stamp.n = 0 - (AheadMs \div 1000) - 1

(* A comment created one day ahead, stamped "-86400s ago". *)
C34_Witness ==
    /\ Stamped
    /\ AheadMs = 86400000
    /\ stamp = [n |-> 0 - 86400, unit |-> "s"]

----------------------------------------------------------------------------
(* The composer after a submission *)

(* C35: completing a submission does not reset the composer. No step of a write
   call, its completion included, changes the form or its draft; the form stays
   mounted and can be submitted again once a call is done; and a submit event
   raised while the draft still equals the body of an earlier call sends one
   more request, equal to that call's, discussionId and body alike. *)
C35_ComposerNotReset ==
    /\ [][writes' # writes => rail' = rail]_vars
    /\ [](Cardinality(FormAt) = 1)
    /\ []((~MicrotaskPending /\ Len(writes) < MaxWrites) =>
            \A sn \in FormAt : ENABLED Submit(sn[1], sn[2]))
    /\ [][trace' = Append(trace, "submit") =>
            /\ Len(writes') = Len(writes) + 1
            /\ \A sn \in FormAt : \A i \in 1..Len(writes) :
                  rail[sn[1]][sn[2]].value = writes[i].req.json.body =>
                      writes'[Len(writes')].req = writes[i].req]_vars

(* The same draft sent twice, both handlers at Done, the draft still in the
   textarea. *)
C35_Witness ==
    /\ Len(writes) = 2
    /\ writes[1].st = "done"
    /\ writes[2].st = "done"
    /\ writes[2].req = writes[1].req
    /\ writes[1].req.json.body = "hi"
    /\ Drafted = FormAt
    /\ FormAt # {}

----------------------------------------------------------------------------
(* The carousel's paging markers *)

(* scrollLeft / clientWidth lies in [i - 1/2, i + 1/2): i is the quotient
   rounded to the nearest integer, a half rounded up. *)
NearestTo(i) ==
    /\ clientWidth > 0
    /\ (2 * i - 1) * clientWidth <= 2 * scrollLeft
    /\ 2 * scrollLeft < (2 * i + 1) * clientWidth

(* Every event dispatched to the carousel has been handled. *)
Settled == started /\ pending = {}

(* C36: once carousel.js has run, at most one marker is active; whenever the
   scroll, resize and marker-click events so far have been handled, a marker is
   active exactly if its index is round(scrollLeft / clientWidth), so none is
   when that index matches no marker; and every run of a scroll or resize
   listener leaves the markers so. *)
C36_OneActiveMarker ==
    /\ [](started => Cardinality(active) <= 1)
    /\ [](Settled =>
            /\ \A i \in 0..(markerCount - 1) : i \in active <=> NearestTo(i)
            /\ active \subseteq 0..(markerCount - 1)
            /\ (~\E i \in 0..(markerCount - 1) : NearestTo(i)) => active = {})
    /\ [][(pending' # pending /\ pending' \subseteq pending) =>
            \A i \in 0..(markerCount - 1) : i \in active' <=> NearestTo(i)]_vars

(* Scrolled to the third slide of a carousel with two markers: none is active. *)
C36_Witness ==
    /\ Settled
    /\ slides = 3
    /\ markerCount = 2
    /\ clientWidth = 100
    /\ scrollLeft = 200
    /\ active = {}

----------------------------------------------------------------------------
(* The carousel's overlay *)

(* A click has run its listener to the end: an expand click with a current
   image, or an overlay click. *)
Clicked == lastClick # "none"

(* C37: once an expand click with a current image or an overlay click has
   happened, the overlay has the class open exactly when its aria-hidden is
   "false" and its img shows the slide that was current at the last expand
   click that found an image. An overlay click leaves the overlay closed,
   hidden and with an empty img; an expand click with no current image changes
   nothing; one with an image opens the overlay on that image. *)
C37_OverlayConsistent ==
    /\ [](Clicked =>
            /\ overlayOpen <=> (ariaHidden = "false" /\ overlaySrc = expanded)
            /\ overlayOpen <=> ariaHidden = "false"
            /\ ariaHidden \in {"true", "false"}
            /\ ~overlayOpen => overlaySrc = ""
            /\ overlayOpen => (overlaySrc # "" /\ lastClick = "expand")
            /\ lastClick = "overlay" => ~overlayOpen)
    /\ [][lastClick' = "overlay" /\ (lastClick # "overlay" \/ overlayOpen) =>
            /\ ~overlayOpen'
            /\ ariaHidden' = "true"
            /\ overlaySrc' = ""]_vars
    /\ [][<<overlayOpen, ariaHidden, overlaySrc>>' # <<overlayOpen, ariaHidden, overlaySrc>> =>
            \/ lastClick' = "overlay"
            \/ /\ lastClick' = "expand"
               /\ currentImage(scrollLeft, clientWidth, imgs) # "undefined"
               /\ overlayOpen'
               /\ overlaySrc' = currentImage(scrollLeft, clientWidth, imgs)
               /\ expanded' = overlaySrc']_vars
    /\ []((started /\ currentImage(scrollLeft, clientWidth, imgs) = "undefined") =>
            ENABLED ExpandClick)

(* The overlay opened on the first slide and still open on it after the
   carousel was scrolled to the second slide, which holds no image. *)
C37_Witness ==
    /\ Clicked
    /\ overlayOpen
    /\ overlaySrc = SrcOf(0)
    /\ expanded = SrcOf(0)
    /\ currentImage(scrollLeft, clientWidth, imgs) = "undefined"
    /\ scrollLeft = clientWidth
    /\ clientWidth > 0

====
